---------------------------- MODULE Spec2Model ----------------------------
(***************************************************************************)
(* Model of user_storage.py (class Tools): the chroot path resolver, the   *)
(* command/argument validator, and the lock + edit-zone state machine of   *)
(* the Storage and Documents zones, over an explicit file-system state.    *)
(*                                                                         *)
(* Strings are sequences of tokens.  A token is one character ("/", ".",   *)
(* ";", ...) or an atomic abbreviation of a longer run of ordinary         *)
(* characters ("Storage", ".lock", "f").  A path string is split on the    *)
(* token "/" exactly as str.split("/") / pathlib do; a file-system path is *)
(* a sequence of segments, each segment a string.                          *)
(***************************************************************************)
EXTENDS Integers, Sequences, FiniteSets, TLC

VARIABLES
    fs,        \* the user's directory tree: absolute path -> node
    symlinks,  \* symbolic links present on disk: absolute path -> absolute target
    now,       \* the wall clock, in hours (datetime.now(timezone.utc))
    repo,      \* the git repository over Documents/data
    resp,      \* the response envelope of the last operation
    sess,      \* history: the call sequence the last operations form (see NoSess)
    opc,       \* per conversation, the position inside a running edit_open
    nops,      \* the number of operations issued so far
    live,      \* whether the run goes on (see Running)
    call       \* the last call of a helper on its own, and its result

vars == <<fs, symlinks, now, repo, resp, sess, opc, nops, live, call>>

-----------------------------------------------------------------------------
(* Strings                                                                 *)

Str(t) == <<t>>
DotDot == <<".", ".">>
Dot == <<".">>
Empty == <<>>

\* q in s  (substring test)
Contains(s, q) ==
    \E i \in 1..(Len(s) - Len(q) + 1) : SubSeq(s, i, i + Len(q) - 1) = q

RECURSIVE LStrip(_)
\* str.lstrip("/")
LStrip(s) ==
    IF s # <<>> /\ Head(s) = "/" THEN LStrip(Tail(s)) ELSE s

RECURSIVE Split(_)
\* str.split("/"): always at least one segment, empty segments kept
Split(s) ==
    IF \A i \in 1..Len(s) : s[i] # "/" THEN <<s>>
    ELSE LET k == CHOOSE i \in 1..Len(s) :
                      s[i] = "/" /\ \A j \in 1..(i - 1) : s[j] # "/"
         IN <<SubSeq(s, 1, k - 1)>> \o Split(SubSeq(s, k + 1, Len(s)))

RECURSIVE Join(_)
\* "/".join(parts)
Join(parts) ==
    IF parts = <<>> THEN <<>>
    ELSE IF Len(parts) = 1 THEN parts[1]
    ELSE parts[1] \o <<"/">> \o Join(Tail(parts))

RECURSIVE DropDots(_)
\* pathlib drops empty and "." components when it parses a relative string
DropDots(segs) ==
    IF segs = <<>> THEN <<>>
    ELSE IF Head(segs) = Empty \/ Head(segs) = Dot THEN DropDots(Tail(segs))
    ELSE <<Head(segs)>> \o DropDots(Tail(segs))

\* PurePath(s).parts for a string without a leading slash
Parts(s) == DropDots(Split(s))

\* base / s   (s is never absolute where the code joins)
PathJoin(base, s) == base \o Parts(s)

Parent(p) == IF p = <<>> THEN <<>> ELSE SubSeq(p, 1, Len(p) - 1)

IsPrefix(a, b) == Len(a) <= Len(b) /\ SubSeq(b, 1, Len(a)) = a

-----------------------------------------------------------------------------
(* Path resolver                                                           *)

MaxLinkHops == 2

RECURSIVE RealPath(_, _, _, _)
\* Path.resolve() (os.path.realpath, non-strict): components are taken one
\* at a time; ".." pops the path built so far (the root is its own parent);
\* a component that is a symbolic link is replaced by its target.
RealPath(cur, rest, links, hops) ==
    IF rest = <<>> THEN cur
    ELSE LET seg == Head(rest)
             nxt == Append(cur, seg)
         IN IF seg = DotDot THEN RealPath(Parent(cur), Tail(rest), links, hops)
            ELSE IF nxt \in DOMAIN links /\ hops > 0
                 THEN RealPath(<<>>, links[nxt] \o Tail(rest), links, hops - 1)
                 ELSE RealPath(nxt, Tail(rest), links, hops)

Resolve(p, links) == RealPath(<<>>, p, links, MaxLinkHops)

Fail(code) == [ok |-> FALSE, error |-> code, target |-> <<>>, path |-> <<>>]

\* Tools._resolve_chroot_path
ResolveChrootPath(base, relative_path, links) ==
    LET rel == LStrip(relative_path)
        target == Resolve(PathJoin(base, rel), links)
        base_resolved == Resolve(base, links)
    IN IF IsPrefix(base_resolved, target)
       THEN [ok |-> TRUE, error |-> "", target |-> target, path |-> rel]
       ELSE Fail("PATH_ESCAPE")

RECURSIVE StackWalk(_, _)
\* the loop of _validate_relative_path: <<"escape">> or the retained parts
StackWalk(segs, parts) ==
    IF segs = <<>> THEN [ok |-> TRUE, parts |-> parts]
    ELSE LET part == Head(segs)
         IN IF part = DotDot
            THEN IF parts = <<>> THEN [ok |-> FALSE, parts |-> <<>>]
                 ELSE StackWalk(Tail(segs), Parent(parts))
            ELSE IF part # Empty /\ part # Dot
                 THEN StackWalk(Tail(segs), Append(parts, part))
                 ELSE StackWalk(Tail(segs), parts)

\* Tools._validate_relative_path: the cleaned path string, or PATH_ESCAPE
ValidateRelativePath(path) ==
    LET p == LStrip(path)
        w == StackWalk(Split(p), <<>>)
    IN IF p # <<>> /\ Head(p) = "/" THEN Fail("PATH_ESCAPE")
       ELSE IF ~w.ok THEN Fail("PATH_ESCAPE")
       ELSE [ok |-> TRUE, error |-> "", target |-> <<>>, path |-> Join(w.parts)]


-----------------------------------------------------------------------------
(* Command and argument validator                                          *)

\* the module-level sets of command names
WHITELIST_READONLY ==
    {"7z", "awk", "b2sum", "base32", "base64", "basename", "basenc", "bc",
     "bzcat", "cat", "cksum", "cmp", "column", "comm", "cut", "dc", "diff",
     "diff3", "dirname", "du", "echo", "egrep", "exiftool", "expand",
     "expr", "factor", "ffprobe", "fgrep", "file", "find", "fmt", "fold",
     "grep", "head", "hexdump", "iconv", "identify", "join", "jq", "less",
     "ls", "md5sum", "more", "nl", "numfmt", "od", "paste", "pr", "printf",
     "realpath", "rev", "rg", "sed", "sha1sum", "sha256sum", "sha512sum",
     "shuf", "sort", "sqlite3", "stat", "strings", "tac", "tail", "tar",
     "tr", "tree", "unexpand", "uniq", "unzip", "wc", "xmllint", "xxd",
     "xzcat", "yq", "zcat", "zipinfo"}

WHITELIST_READWRITE ==
    WHITELIST_READONLY \cup
    {"7za", "bunzip2", "bzip2", "cal", "chmod", "colordiff", "convert",
     "cp", "csplit", "date", "df", "dos2unix", "env", "envsubst", "false",
     "ffmpeg", "gettext", "git", "gunzip", "gzip", "install", "ln",
     "locate", "lz4", "magick", "mkdir", "mktemp", "mv", "nproc", "pandoc",
     "patch", "pathchk", "printenv", "pwd", "readlink", "recode", "rename",
     "rm", "rmdir", "sdiff", "seq", "shred", "sleep", "split", "sum", "tee",
     "timeout", "touch", "true", "truncate", "tsort", "uname", "unix2dos",
     "unxz", "uudecode", "uuencode", "whereis", "which", "xargs", "xz",
     "yes", "zip", "zstd"}

GIT_WHITELIST_READ ==
    {"blame", "branch", "cat-file", "describe", "diff", "log", "ls-files",
     "ls-tree", "reflog", "rev-list", "rev-parse", "shortlog", "show",
     "status", "tag"}

GIT_WHITELIST_WRITE ==
    {"add", "checkout", "cherry-pick", "clean", "commit", "mv", "reset",
     "restore", "revert", "rm", "stash"}

GIT_BLACKLIST ==
    {"clone", "fetch", "filter-branch", "gc", "prune", "pull", "push",
     "remote"}

BLACKLIST_COMMANDS ==
    {"at", "bash", "batch", "chgrp", "chown", "crontab", "csh", "curl",
     "dash", "dd", "disown", "doas", "eval", "exec", "fdisk", "fetch",
     "firewall-cmd", "fish", "ftp", "halt", "iptables", "kill", "killall",
     "ksh", "lua", "mkfs", "mount", "nc", "ncat", "netcat", "node", "nohup",
     "parted", "perl", "php", "ping", "pkill", "poweroff", "python",
     "python3", "reboot", "rsync", "ruby", "scp", "screen", "service",
     "setsid", "sftp", "sh", "shutdown", "source", "ssh", "su", "sudo",
     "systemctl", "tcsh", "telnet", "tmux", "traceroute", "umount", "wget",
     "zsh"}

\* the characters of the class \s that occur in the arguments below
Whitespace == {" ", "\t", "\n", "\r", "\f"}

\* DANGEROUS_ARGS_PATTERN matches at position i of s; its alternatives are
\* [;&|`$\n\r]  &&  \|\|  >>  <<  >\s  <\s  \$\(  \$\{
\* (the token "backtick" is the character `)
PatternAt(s, i) ==
    \/ s[i] \in {";", "&", "|", "backtick", "$", "\n", "\r"}
    \/ /\ i < Len(s)
       /\ \/ s[i] = "&" /\ s[i + 1] = "&"
          \/ s[i] = "|" /\ s[i + 1] = "|"
          \/ s[i] = ">" /\ s[i + 1] = ">"
          \/ s[i] = "<" /\ s[i + 1] = "<"
          \/ s[i] = ">" /\ s[i + 1] \in Whitespace
          \/ s[i] = "<" /\ s[i + 1] \in Whitespace
          \/ s[i] = "$" /\ s[i + 1] = "("
          \/ s[i] = "$" /\ s[i + 1] = "{"

\* DANGEROUS_ARGS_PATTERN.search(arg_str)
DangerousMatch(s) == \E i \in 1..Len(s) : PatternAt(s, i)

Passed == [ok |-> TRUE, error |-> "", why |-> ""]
Refused(code, why) == [ok |-> FALSE, error |-> code, why |-> why]

InPlaceFlag == <<"-", "i">>

RECURSIVE ValidateArgs(_, _)
\* Tools._validate_args: the first argument that is refused ends the loop
ValidateArgs(args, readonly) ==
    IF args = <<>> THEN Passed
    ELSE IF DangerousMatch(Head(args))
         THEN Refused("ARGUMENT_FORBIDDEN", "Dangerous argument detected")
    ELSE IF readonly /\ Head(args) = InPlaceFlag
         THEN Refused("ARGUMENT_FORBIDDEN", "Option -i (in-place) is forbidden in read-only mode")
    ELSE ValidateArgs(Tail(args), readonly)

RECURSIVE ValidateGitCommandSkippingOptions(_)
ValidateGitCommandSkippingOptions(args) ==
    IF args = <<>> THEN Refused("ARGUMENT_FORBIDDEN", "Git command without subcommand")
    ELSE IF Head(Head(args)) = "--no-pager" THEN ValidateGitCommandSkippingOptions(Tail(args))
    ELSE IF \E g \in GIT_BLACKLIST : args[1] = Str(g)
         THEN Refused("COMMAND_FORBIDDEN", "Git command is forbidden")
    ELSE IF ~\E g \in GIT_WHITELIST_READ \cup GIT_WHITELIST_WRITE : args[1] = Str(g)
         THEN Refused("COMMAND_FORBIDDEN", "Git subcommand is not allowed")
    ELSE Passed

\* Tools._validate_git_command; a sub-command is the one-token string of its name
ValidateGitCommand(args) ==
    IF args = <<>> THEN Refused("ARGUMENT_FORBIDDEN", "Git command without subcommand")
    ELSE IF \E g \in GIT_BLACKLIST : args[1] = Str(g)
         THEN Refused("COMMAND_FORBIDDEN", "Git command is forbidden")
    ELSE IF ~\E g \in GIT_WHITELIST_READ \cup GIT_WHITELIST_WRITE : args[1] = Str(g)
         THEN Refused("COMMAND_FORBIDDEN", "Git subcommand is not allowed")
    ELSE Passed

\* args = None
NoArgs == <<"None">>

ValidateCommandWhitelistFirst(cmd, whitelist, args) ==
    IF cmd \notin whitelist
    THEN Refused("COMMAND_FORBIDDEN", "Command is not in whitelist")
    ELSE IF cmd \in BLACKLIST_COMMANDS
         THEN Refused("COMMAND_FORBIDDEN", "Command is forbidden")
    ELSE IF cmd = "git" /\ args # NoArgs THEN ValidateGitCommand(args)
    ELSE Passed

\* Tools._validate_command
ValidateCommand(cmd, whitelist, args) ==
    IF cmd \in BLACKLIST_COMMANDS
    THEN Refused("COMMAND_FORBIDDEN", "Command is forbidden")
    ELSE IF cmd \notin whitelist
         THEN Refused("COMMAND_FORBIDDEN", "Command is not in whitelist")
    ELSE IF cmd = "git" /\ args # NoArgs THEN ValidateGitCommand(args)
    ELSE Passed

-----------------------------------------------------------------------------
(* File system                                                             *)

STORAGE == <<"Storage">>
DOCUMENTS == <<"Documents">>
DATA == <<"data">>
LOCKS == <<"locks">>
EDITZONE == <<"editzone">>
GITDIR == <<".git">>
UPLOADS == <<"Uploads">>

\* Tools._get_user_root: storage_base_path / user_id
UserRoot == <<Str("users"), Str("u")>>
ZoneRoot(z) == Append(UserRoot, z)

\* no entry at all: an empty tree, no symbolic link
NoLinks == [p \in {} |-> <<>>]

NoContent == [tag |-> "none", s |-> <<>>, conv_id |-> <<>>, locked_at |-> 0]
Text(s) == [tag |-> "text", s |-> s, conv_id |-> <<>>, locked_at |-> 0]
DirNode == [kind |-> "dir", c |-> NoContent]
FileNode(c) == [kind |-> "file", c |-> c]

Exists(f, p) == p \in DOMAIN f
IsDir(f, p) == p \in DOMAIN f /\ f[p].kind = "dir"
IsFile(f, p) == p \in DOMAIN f /\ f[p].kind = "file"
Descendants(f, p) == {q \in DOMAIN f : IsPrefix(p, q)}
Children(f, p) == {q \in DOMAIN f : Len(q) = Len(p) + 1 /\ IsPrefix(p, q)}
Prefixes(p) == {SubSeq(p, 1, k) : k \in 0..Len(p)}
Remove(f, S) == [q \in (DOMAIN f) \ S |-> f[q]]

\* the content of the tree rooted at p, keyed by the path below p
Subtree(f, p) ==
    [s \in {SubSeq(q, Len(p) + 1, Len(q)) : q \in Descendants(f, p)} |-> f[p \o s]]

\* Path.relative_to: p below base, as the segments after base
Rel(p, base) == SubSeq(p, Len(base) + 1, Len(p))

\* shutil.rmtree / Path.unlink
RmTree(f, p) == Remove(f, Descendants(f, p))

\* Path.mkdir(parents=True, exist_ok=True) raises when p or an ancestor is a file
MkdirOK(f, p) == \A q \in Prefixes(p) : q \in DOMAIN f => f[q].kind = "dir"
\* Tools._ensure_dir
EnsureDir(f, p) ==
    [q \in (DOMAIN f) \cup Prefixes(p) |-> IF q \in DOMAIN f THEN f[q] ELSE DirNode]

\* Path.write_text / open("w"): the parent must be a directory, p not a directory
WriteOK(f, p) == IsDir(f, Parent(p)) /\ ~IsDir(f, p)
WriteFile(f, p, c) ==
    [q \in (DOMAIN f) \cup {p} |-> IF q = p THEN FileNode(c) ELSE f[q]]

\* shutil.copytree(src, dst): os.makedirs(dst) raises when dst exists
CopyTreeOK(f, src, dst) == ~Exists(f, dst) /\ MkdirOK(f, Parent(dst))
CopyTree(f, src, dst) ==
    LET g == EnsureDir(f, Parent(dst))
        sub == Subtree(f, src)
        new == {dst \o s : s \in DOMAIN sub}
    IN [q \in (DOMAIN g) \cup new |->
            IF q \in new THEN sub[SubSeq(q, Len(dst) + 1, Len(q))] ELSE g[q]]

\* shutil.copy2(src, dst): a dst that is a directory receives dst/<name of src>
Copy2Dest(f, src, dst) == IF IsDir(f, dst) THEN Append(dst, src[Len(src)]) ELSE dst
Copy2OK(f, src, dst) == IsFile(f, src) /\ WriteOK(f, Copy2Dest(f, src, dst))
Copy2KeepingDest(f, src, dst) ==
    IF Exists(f, Copy2Dest(f, src, dst)) THEN f
    ELSE WriteFile(f, Copy2Dest(f, src, dst), f[src].c)
Copy2(f, src, dst) == WriteFile(f, Copy2Dest(f, src, dst), f[src].c)

RECURSIVE RmEmptyUp(_, _, _)
\* the while loop of _rm_with_empty_parents: rmdir fails on a directory that
\* is missing or not empty, which ends the walk
RmEmptyUp(f, parent, stop_at) ==
    IF parent = stop_at \/ parent = <<>> THEN f
    ELSE IF IsDir(f, parent) /\ Children(f, parent) = {}
         THEN RmEmptyUp(Remove(f, {parent}), Parent(parent), stop_at)
         ELSE f

RmLeavingParents(f, filepath, stop_at) ==
    IF Exists(f, filepath) THEN RmTree(f, filepath) ELSE f

\* Tools._rm_with_empty_parents
RmWithEmptyParents(f, filepath, stop_at) ==
    RmEmptyUp(IF Exists(f, filepath) THEN RmTree(f, filepath) ELSE f,
              Parent(filepath), stop_at)


-----------------------------------------------------------------------------
(* Locks and edit zones                                                    *)

\* Valves.lock_max_age_hours
LockMaxAgeHours == 24
\* Valves.max_file_size_mb
MaxFileSizeMb == 300

LockRec(conv_id, locked_at, path) ==
    [tag |-> "lock", s |-> path, conv_id |-> conv_id, locked_at |-> locked_at]

\* Tools._get_lock_path: zone_root / "locks" / (relative_path + ".lock")
GetLockPath(zone_root, relative_path) ==
    PathJoin(Append(zone_root, LOCKS), relative_path \o <<".lock">>)

\* Tools._get_editzone_path: zone_root / "editzone" / conv_id / relative_path
GetEditzonePath(zone_root, conv_id, relative_path) ==
    PathJoin(Append(Append(zone_root, EDITZONE), conv_id), relative_path)

DataPath(zone_root, relative_path) == PathJoin(Append(zone_root, DATA), relative_path)

\* the response envelope: _format_response / StorageError.to_dict
Response(op, ok, error, owner) ==
    [op |-> op, ok |-> ok, error |-> error, owner |-> owner]

\* _format_response(False, message=...): {success: false, message} without a
\* code, returned for an exception that is no StorageError and by
\* store_uploads_exec when the conversation has no upload directory
Exc == "EXCEPTION"

\* json.loads succeeds on the record that _create_lock wrote
IsJson(c) == c.tag = "lock"

\* Lock files that _create_lock did not write (a write cut short, another
\* writer).  By what json.loads and the reads of the fields make of them:
\* text that is no JSON (tag "text"); JSON that is no object, such as []
\* (tag "json"); an object without locked_at (tag "nodate"), with a
\* locked_at that datetime.fromisoformat refuses (tag "baddate") or that
\* carries no time zone (tag "naive").  An object without conv_id has
\* conv_id = <<>>: lock_data.get("conv_id") is None there, which equals no
\* conversation id, and lock_data.get("conv_id", "") is empty.
Garbled == Text(<<"{">>)
JsonList == [tag |-> "json", s |-> <<>>, conv_id |-> <<>>, locked_at |-> 0]
Undated(tag, conv_id, path) ==
    [tag |-> tag, s |-> path, conv_id |-> conv_id, locked_at |-> 0]
IsObject(c) == c.tag \in {"lock", "nodate", "baddate", "naive"}

CheckLockIgnoreOwner(f, lock_path, conv_id) ==
    [ok |-> TRUE, error |-> "", owner |-> <<>>]

\* Tools._check_lock: only json.JSONDecodeError is caught; lock_data.get on
\* a value that is no object raises AttributeError, which the handler turns
\* into a failure without a code
CheckLock(f, lock_path, conv_id) ==
    IF ~Exists(f, lock_path) \/ f[lock_path].c.tag = "text"
    THEN [ok |-> TRUE, error |-> "", owner |-> <<>>]
    ELSE IF ~IsObject(f[lock_path].c)
         THEN [ok |-> FALSE, error |-> Exc, owner |-> <<>>]
    ELSE IF f[lock_path].c.conv_id # conv_id
         THEN [ok |-> FALSE, error |-> "FILE_LOCKED", owner |-> f[lock_path].c.conv_id]
    ELSE [ok |-> TRUE, error |-> "", owner |-> <<>>]

\* Tools._create_lock: None when the lock was written, else the exception
CreateLockOK(f, lock_path) == MkdirOK(f, Parent(lock_path)) /\ ~IsDir(f, lock_path)
CreateLock(f, lock_path, conv_id, t, path) ==
    WriteFile(EnsureDir(f, Parent(lock_path)), lock_path, LockRec(conv_id, t, path))

\* edit_open, first part: _validate_relative_path, the existence test on
\* data/<path> and _check_lock.  Nothing is written.
OpenCheck(f, z, conv_id, raw) ==
    LET v == ValidateRelativePath(raw)
        zone_root == ZoneRoot(z)
        chk == CheckLock(f, GetLockPath(zone_root, v.path), conv_id)
    IN IF ~v.ok THEN [ok |-> FALSE, error |-> v.error, owner |-> <<>>, path |-> raw]
       ELSE IF ~Exists(f, DataPath(zone_root, v.path))
            THEN [ok |-> FALSE, error |-> "FILE_NOT_FOUND", owner |-> <<>>, path |-> v.path]
       ELSE [ok |-> chk.ok, error |-> chk.error, owner |-> chk.owner, path |-> v.path]

\* edit_open, second part: _create_lock
OpenLock(f, z, conv_id, path, t) ==
    LET lock_path == GetLockPath(ZoneRoot(z), path)
    IN IF CreateLockOK(f, lock_path)
       THEN [ok |-> TRUE, fs |-> CreateLock(f, lock_path, conv_id, t, path)]
       ELSE [ok |-> FALSE, fs |-> f]

\* edit_open, third part: the copy of data/<path> into the edit zone
OpenCopy(f, z, conv_id, path) ==
    LET zone_root == ZoneRoot(z)
        data_path == DataPath(zone_root, path)
        edit_path == GetEditzonePath(zone_root, conv_id, path)
        g == EnsureDir(f, Parent(edit_path))
    IN IF ~MkdirOK(f, Parent(edit_path)) THEN [ok |-> FALSE, fs |-> f]
       ELSE IF IsDir(g, data_path)
            THEN IF CopyTreeOK(g, data_path, edit_path)
                 THEN [ok |-> TRUE, fs |-> CopyTree(g, data_path, edit_path)]
                 ELSE [ok |-> FALSE, fs |-> g]
       ELSE IF Copy2OK(g, data_path, edit_path)
            THEN [ok |-> TRUE, fs |-> Copy2(g, data_path, edit_path)]
            ELSE [ok |-> FALSE, fs |-> g]

\* Tools.store_storage_edit_open / Tools.store_documents_edit_open
EditOpenResult(f, z, conv_id, raw, t) ==
    LET chk == OpenCheck(f, z, conv_id, raw)
        lk == OpenLock(f, z, conv_id, chk.path, t)
        cp == OpenCopy(lk.fs, z, conv_id, chk.path)
    IN IF ~chk.ok
       THEN [fs |-> f, resp |-> Response("edit_open", FALSE, chk.error, chk.owner)]
       ELSE IF ~lk.ok
            THEN [fs |-> f, resp |-> Response("edit_open", FALSE, Exc, <<>>)]
       ELSE IF ~cp.ok
            THEN [fs |-> cp.fs, resp |-> Response("edit_open", FALSE, Exc, <<>>)]
       ELSE [fs |-> cp.fs, resp |-> Response("edit_open", TRUE, "", <<>>)]

\* size of a token in bytes (UTF-8) and in characters: "BIG" abbreviates a
\* run of ASCII characters one byte longer than the limit, "eacute" is the
\* character e with acute accent, two bytes long
MaxBytes == MaxFileSizeMb * 1024 * 1024
TokenBytes(t) == IF t = "BIG" THEN MaxBytes + 1 ELSE IF t = "eacute" THEN 2 ELSE 1
TokenChars(t) == IF t = "BIG" THEN MaxBytes + 1 ELSE 1
RECURSIVE ByteLen(_)
\* len(content.encode('utf-8'))
ByteLen(s) == IF s = <<>> THEN 0 ELSE TokenBytes(Head(s)) + ByteLen(Tail(s))
RECURSIVE CharLen(_)
\* len(content)
CharLen(s) == IF s = <<>> THEN 0 ELSE TokenChars(Head(s)) + CharLen(Tail(s))

ValidateContentSizeOff(content) == TRUE

\* Tools._validate_content_size
ValidateContentSize(content) == ByteLen(content) <= MaxBytes

\* the write shared by store_*_write and store_*_edit_write, after the chroot
\* is known: size check, _resolve_chroot_path, _ensure_dir, append or overwrite
WriteInto(f, chroot, raw, content, append, links) ==
    LET r == ResolveChrootPath(chroot, raw, links)
        target == r.target
        g == EnsureDir(f, Parent(target))
    IN IF ~ValidateContentSize(content) THEN [fs |-> f, ok |-> FALSE, error |-> "QUOTA_EXCEEDED"]
       ELSE IF ~r.ok THEN [fs |-> f, ok |-> FALSE, error |-> r.error]
       ELSE IF ~MkdirOK(f, Parent(target)) THEN [fs |-> f, ok |-> FALSE, error |-> Exc]
       ELSE IF IsDir(g, target) THEN [fs |-> g, ok |-> FALSE, error |-> Exc]
       ELSE IF append /\ Exists(g, target)
            THEN [fs |-> WriteFile(g, target, Text(g[target].c.s \o content)),
                  ok |-> TRUE, error |-> ""]
            ELSE [fs |-> WriteFile(g, target, Text(content)), ok |-> TRUE, error |-> ""]

EditWriteResultInPlace(f, z, conv_id, raw, content, append, links) ==
    LET chroot == Append(Append(ZoneRoot(z), EDITZONE), conv_id)
        w == WriteInto(f, Append(ZoneRoot(z), DATA), raw, content, append, links)
    IN IF ~Exists(f, chroot)
       THEN [fs |-> f, resp |-> Response("edit_write", FALSE, "ZONE_FORBIDDEN", <<>>)]
       ELSE [fs |-> w.fs, resp |-> Response("edit_write", w.ok, w.error, <<>>)]

\* Tools.store_storage_edit_write / Tools.store_documents_edit_write
EditWriteResult(f, z, conv_id, raw, content, append, links) ==
    LET chroot == Append(Append(ZoneRoot(z), EDITZONE), conv_id)
        w == WriteInto(f, chroot, raw, content, append, links)
    IN IF ~Exists(f, chroot)
       THEN [fs |-> f, resp |-> Response("edit_write", FALSE, "ZONE_FORBIDDEN", <<>>)]
       ELSE [fs |-> w.fs, resp |-> Response("edit_write", w.ok, w.error, <<>>)]


-----------------------------------------------------------------------------
(* Version bridge: the repository over Documents/data                      *)

\* what "git add -A" stages: the files below repo_path outside .git
\* (git does not record directories)
WorkTree(f, repo_path) ==
    LET sub == Subtree(f, repo_path)
        tracked == {s \in DOMAIN sub : sub[s].kind = "file" /\ ~IsPrefix(<<GITDIR>>, s)}
    IN [s \in tracked |-> sub[s].c]

\* the repository: the tree of the last commit and the commits made, oldest first
NoRepo == [head |-> WorkTree(NoLinks, <<>>), log |-> <<>>]
Commit(message, tree) == [message |-> message, tree |-> tree]

\* Tools._git_commit: "git add -A" then "git commit -m message
\* --allow-empty-message"; exit codes are not looked at.  Without a
\* repository, or with nothing staged against HEAD, no commit is made
\* (--allow-empty is not given).
GitCommit(f, r, repo_path, message) ==
    IF ~IsDir(f, Append(repo_path, GITDIR)) THEN r
    ELSE IF WorkTree(f, repo_path) = r.head THEN r
    ELSE [head |-> WorkTree(f, repo_path),
          log |-> Append(r.log, Commit(message, WorkTree(f, repo_path)))]

\* the default commit message: f"{action} {path}"
DefaultMessage(action, path) == <<action, " ">> \o path

-----------------------------------------------------------------------------
(* edit_save, edit_cancel, direct write and delete                         *)

SaveCopyMerge(f, data_path, edit_path) ==
    LET g == EnsureDir(f, Parent(data_path))
        sub == Subtree(g, edit_path)
        new == {data_path \o s : s \in DOMAIN sub}
    IN [q \in (DOMAIN g) \cup new |->
            IF q \in new THEN sub[SubSeq(q, Len(data_path) + 1, Len(q))] ELSE g[q]]

\* the copy back of edit_save: data/<path> is removed, then copied from the edit zone
SaveReplace(f, data_path, edit_path) ==
    LET g == EnsureDir(f, Parent(data_path))
        h == IF Exists(g, data_path) THEN RmTree(g, data_path) ELSE g
    IN IF IsDir(h, edit_path) THEN CopyTree(h, edit_path, data_path)
       ELSE Copy2(h, edit_path, data_path)

\* the cleanup of edit_save: edit-zone copy and lock record, with empty parents
SaveCleanup(f, zone_root, edit_path, lock_path) ==
    RmWithEmptyParents(RmWithEmptyParents(f, edit_path, Append(zone_root, EDITZONE)),
                       lock_path, Append(zone_root, LOCKS))

EditSaveResultUnchecked(f, r, z, conv_id, raw) ==
    LET zone_root == ZoneRoot(z)
        path == ValidateRelativePath(raw).path
    IN [fs |-> SaveCleanup(f, zone_root, GetEditzonePath(zone_root, conv_id, path),
                           GetLockPath(zone_root, path)),
        repo |-> r,
        resp |-> Response("edit_save", TRUE, "", <<>>)]

\* Tools.store_storage_edit_save / Tools.store_documents_edit_save
EditSaveResult(f, r, z, conv_id, raw) ==
    LET v == ValidateRelativePath(raw)
        zone_root == ZoneRoot(z)
        data_path == DataPath(zone_root, v.path)
        lock_path == GetLockPath(zone_root, v.path)
        edit_path == GetEditzonePath(zone_root, conv_id, v.path)
        copied == SaveReplace(f, data_path, edit_path)
        r2 == IF z = DOCUMENTS
              THEN GitCommit(copied, r, Append(zone_root, DATA),
                             DefaultMessage("Modified", v.path))
              ELSE r
    IN IF ~v.ok
       THEN [fs |-> f, repo |-> r,
             resp |-> Response("edit_save", FALSE, v.error, <<>>)]
       ELSE IF ~Exists(f, edit_path)
            THEN [fs |-> f, repo |-> r,
                  resp |-> Response("edit_save", FALSE, "FILE_NOT_FOUND", <<>>)]
       ELSE IF ~MkdirOK(f, Parent(data_path))
            THEN [fs |-> f, repo |-> r,
                  resp |-> Response("edit_save", FALSE, Exc, <<>>)]
       ELSE [fs |-> SaveCleanup(copied, zone_root, edit_path, lock_path), repo |-> r2,
             resp |-> Response("edit_save", TRUE, "", <<>>)]

CancelCleanupOnlyLock(f, zone_root, edit_path, lock_path) ==
    IF Exists(f, lock_path)
    THEN RmWithEmptyParents(f, lock_path, Append(zone_root, LOCKS)) ELSE f

\* the cleanup of edit_cancel
CancelCleanup(f, zone_root, edit_path, lock_path) ==
    LET g == IF Exists(f, edit_path)
             THEN RmWithEmptyParents(f, edit_path, Append(zone_root, EDITZONE)) ELSE f
    IN IF Exists(g, lock_path)
       THEN RmWithEmptyParents(g, lock_path, Append(zone_root, LOCKS)) ELSE g

\* Tools.store_storage_edit_cancel / Tools.store_documents_edit_cancel
EditCancelResult(f, z, conv_id, raw) ==
    LET v == ValidateRelativePath(raw)
        zone_root == ZoneRoot(z)
        lock_path == GetLockPath(zone_root, v.path)
        edit_path == GetEditzonePath(zone_root, conv_id, v.path)
    IN IF ~v.ok
       THEN [fs |-> f, resp |-> Response("edit_cancel", FALSE, v.error, <<>>)]
       ELSE [fs |-> CancelCleanup(f, zone_root, edit_path, lock_path),
             resp |-> Response("edit_cancel", TRUE, "", <<>>)]

StorageWriteResultLocked(f, raw, content, append, links) ==
    LET chroot == Append(ZoneRoot(STORAGE), DATA)
        w == WriteInto(EnsureDir(f, chroot), chroot, raw, content, append, links)
    IN IF Exists(f, GetLockPath(ZoneRoot(STORAGE), raw))
       THEN [fs |-> f, resp |-> Response("write", FALSE, "FILE_LOCKED", <<>>)]
       ELSE [fs |-> w.fs, resp |-> Response("write", w.ok, w.error, <<>>)]

\* Tools.store_storage_write; a success carries data = {"bytes": len(content)}
StorageWriteResult(f, raw, content, append, links) ==
    LET chroot == Append(ZoneRoot(STORAGE), DATA)
        w == WriteInto(EnsureDir(f, chroot), chroot, raw, content, append, links)
    IN IF ~MkdirOK(f, chroot)
       THEN [fs |-> f, resp |-> Response("write", FALSE, Exc, <<>>)]
       ELSE IF ~w.ok
            THEN [fs |-> w.fs, resp |-> Response("write", FALSE, w.error, <<>>)]
       ELSE [fs |-> w.fs,
             resp |-> Response("write", TRUE, "", <<>>) @@ [bytes |-> CharLen(content)]]

\* Tools.store_storage_delete
StorageDeleteResult(f, raw, links) ==
    LET chroot == Append(ZoneRoot(STORAGE), DATA)
        r == ResolveChrootPath(chroot, raw, links)
    IN IF ~r.ok
       THEN [fs |-> f, resp |-> Response("delete", FALSE, r.error, <<>>)]
       ELSE IF ~Exists(f, r.target)
            THEN [fs |-> f, resp |-> Response("delete", FALSE, "FILE_NOT_FOUND", <<>>)]
       ELSE [fs |-> RmTree(f, r.target),
             resp |-> Response("delete", TRUE, "", <<>>)]

\* shutil.move(src, dst): a dst that is a directory receives dst/<name of
\* src> and the call raises when that exists; a file replaces a file; a
\* directory is moved neither onto a file nor into itself; src = dst moves
\* nothing and raises nothing
MoveDest(f, src, dst) ==
    IF IsDir(f, dst) /\ src # dst THEN Append(dst, src[Len(src)]) ELSE dst
MoveOK(f, src, dst) ==
    \/ src = dst
    \/ /\ ~(IsDir(f, dst) /\ Exists(f, MoveDest(f, src, dst)))
       /\ ~(IsDir(f, src) /\ Exists(f, MoveDest(f, src, dst)))
       /\ ~(IsDir(f, src) /\ IsPrefix(src, MoveDest(f, src, dst)))
Move(f, src, dst) ==
    LET into == MoveDest(f, src, dst)
        sub == Subtree(f, src)
        moved == {into \o t : t \in DOMAIN sub}
    IN IF src = dst THEN f
       ELSE [q \in ((DOMAIN f) \ Descendants(f, src)) \cup moved |->
                IF q \in moved THEN sub[Rel(q, into)] ELSE f[q]]

\* Tools.store_storage_rename
StorageRenameResult(f, old_path, new_path, links) ==
    LET chroot == Append(ZoneRoot(STORAGE), DATA)
        source == ResolveChrootPath(chroot, old_path, links)
        dest == ResolveChrootPath(chroot, new_path, links)
        g == EnsureDir(f, Parent(dest.target))
    IN IF ~source.ok \/ ~dest.ok
       THEN [fs |-> f, resp |-> Response("rename", FALSE, "PATH_ESCAPE", <<>>)]
       ELSE IF ~Exists(f, source.target)
            THEN [fs |-> f, resp |-> Response("rename", FALSE, "FILE_NOT_FOUND", <<>>)]
       ELSE IF ~MkdirOK(f, Parent(dest.target))
            THEN [fs |-> f, resp |-> Response("rename", FALSE, Exc, <<>>)]
       ELSE IF ~MoveOK(g, source.target, dest.target)
            THEN [fs |-> g, resp |-> Response("rename", FALSE, Exc, <<>>)]
       ELSE [fs |-> Move(g, source.target, dest.target),
             resp |-> Response("rename", TRUE, "", <<>>)]


-----------------------------------------------------------------------------
(* The direct operations on the Documents zone and the zone bridges        *)

\* Tools._init_git_repo: "git init" where repo_path/.git is missing
InitGitRepo(f, repo_path) ==
    IF Exists(f, Append(repo_path, GITDIR)) THEN f
    ELSE EnsureDir(f, Append(repo_path, GITDIR))

\* the files at or below p that the repository tracks
Tracked(f, r, repo_path, p) ==
    {q \in Descendants(f, p) : IsFile(f, q) /\ Rel(q, repo_path) \in DOMAIN r.head}

\* "git rm -rf <path>" in repo_path: the tracked files at or below the path
\* are removed, and with them the directories above them that this empties;
\* where the path matches no tracked file git fails and removes nothing
GitRm(f, r, repo_path, target) ==
    LET files == Tracked(f, r, repo_path, target)
        g == Remove(f, files)
        above == {d \in UNION {Prefixes(q) : q \in files} :
                     Len(d) > Len(repo_path) /\ d \notin files}
        emptied == {d \in above : Descendants(g, d) \subseteq above}
    IN IF ~IsDir(f, Append(repo_path, GITDIR)) THEN f
       ELSE Remove(g, emptied)

\* "git mv <old> <new>" in repo_path: a destination that is a directory
\* receives <new>/<name of old>; git fails, and moves nothing, when the source
\* holds no tracked file, when the destination exists, or when the
\* destination lies in the source
GitMv(f, r, repo_path, source, dest) ==
    LET into == IF IsDir(f, dest) THEN Append(dest, source[Len(source)]) ELSE dest
        sub == Subtree(f, source)
        moved == {into \o t : t \in DOMAIN sub}
    IN IF \/ ~IsDir(f, Append(repo_path, GITDIR))
          \/ Tracked(f, r, repo_path, source) = {}
          \/ Exists(f, into)
          \/ IsPrefix(source, into)
       THEN f
       ELSE [q \in ((DOMAIN f) \ Descendants(f, source)) \cup moved |->
                IF q \in moved THEN sub[Rel(q, into)] ELSE f[q]]

\* the message of the commit: the caller's, or the default when it is empty
MessageOr(message, default) == IF message # <<>> THEN message ELSE default

\* Tools.store_documents_write
DocumentsWriteResult(f, r, raw, content, append, message, links) ==
    LET chroot == Append(ZoneRoot(DOCUMENTS), DATA)
        g == InitGitRepo(f, chroot)
        w == WriteInto(g, chroot, raw, content, append, links)
        target == ResolveChrootPath(chroot, raw, links).target
        is_new == ~Exists(g, target)
        action == IF is_new THEN "Created"
                  ELSE IF append THEN "Appended to" ELSE "Modified"
    IN IF ~w.ok
       THEN [fs |-> w.fs, repo |-> r,
             resp |-> Response("documents_write", FALSE, w.error, <<>>)]
       ELSE [fs |-> w.fs,
             repo |-> GitCommit(w.fs, r, chroot,
                                MessageOr(message, DefaultMessage(action, raw))),
             resp |-> Response("documents_write", TRUE, "", <<>>)]

\* what subprocess.run(["git", ...]) meets on the host: a git that does its
\* work, a git that exits non-zero each time, or no git at all
GitHosts == {"works", "fails", "absent"}

\* Tools._init_git_repo on such a host: the return code of git is not looked
\* at; without the executable subprocess.run raises FileNotFoundError
InitGitRepoOn(f, repo_path, git) ==
    IF Exists(f, Append(repo_path, GITDIR)) THEN [fs |-> f, raised |-> FALSE]
    ELSE IF git = "works" THEN [fs |-> InitGitRepo(f, repo_path), raised |-> FALSE]
    ELSE [fs |-> EnsureDir(f, repo_path), raised |-> git = "absent"]

\* Tools.store_documents_write on such a host
DocumentsWriteOn(f, r, raw, content, append, message, links, git) ==
    LET chroot == Append(ZoneRoot(DOCUMENTS), DATA)
        i == InitGitRepoOn(f, chroot, git)
        w == WriteInto(i.fs, chroot, raw, content, append, links)
    IN IF git = "works" THEN DocumentsWriteResult(f, r, raw, content, append, message, links)
       ELSE IF i.raised
            THEN [fs |-> i.fs, repo |-> r,
                  resp |-> Response("documents_write", FALSE, Exc, <<>>)]
       ELSE IF ~w.ok
            THEN [fs |-> w.fs, repo |-> r,
                  resp |-> Response("documents_write", FALSE, w.error, <<>>)]
       ELSE IF git = "absent"
            THEN [fs |-> w.fs, repo |-> r,
                  resp |-> Response("documents_write", FALSE, Exc, <<>>)]
       ELSE [fs |-> w.fs, repo |-> r,
             resp |-> Response("documents_write", TRUE, "", <<>>)]

\* Tools.store_documents_delete
DocumentsDeleteResult(f, r, raw, message, links) ==
    LET chroot == Append(ZoneRoot(DOCUMENTS), DATA)
        t == ResolveChrootPath(chroot, raw, links)
        g == GitRm(f, r, chroot, t.target)
    IN IF ~t.ok
       THEN [fs |-> f, repo |-> r,
             resp |-> Response("documents_delete", FALSE, t.error, <<>>)]
       ELSE IF ~Exists(f, t.target)
            THEN [fs |-> f, repo |-> r,
                  resp |-> Response("documents_delete", FALSE, "FILE_NOT_FOUND", <<>>)]
       ELSE [fs |-> g,
             repo |-> GitCommit(g, r, chroot,
                                MessageOr(message, DefaultMessage("Suppression de", raw))),
             resp |-> Response("documents_delete", TRUE, "", <<>>)]

\* Tools.store_documents_rename
DocumentsRenameResult(f, r, old_path, new_path, message, links) ==
    LET chroot == Append(ZoneRoot(DOCUMENTS), DATA)
        source == ResolveChrootPath(chroot, old_path, links)
        dest == ResolveChrootPath(chroot, new_path, links)
        g == EnsureDir(f, Parent(dest.target))
        h == GitMv(g, r, chroot, source.target, dest.target)
        default == DefaultMessage("Renommage", old_path \o <<" ", "->", " ">> \o new_path)
    IN IF ~source.ok \/ ~dest.ok
       THEN [fs |-> f, repo |-> r,
             resp |-> Response("documents_rename", FALSE, "PATH_ESCAPE", <<>>)]
       ELSE IF ~Exists(f, source.target)
            THEN [fs |-> f, repo |-> r,
                  resp |-> Response("documents_rename", FALSE, "FILE_NOT_FOUND", <<>>)]
       ELSE IF ~MkdirOK(f, Parent(dest.target))
            THEN [fs |-> f, repo |-> r,
                  resp |-> Response("documents_rename", FALSE, Exc, <<>>)]
       ELSE [fs |-> h,
             repo |-> GitCommit(h, r, chroot, MessageOr(message, default)),
             resp |-> Response("documents_rename", TRUE, "", <<>>)]

\* the copy of a bridge: _ensure_dir(target.parent), then shutil.copytree
\* for a directory and shutil.copy2 for a file
BridgeCopy(f, source, target) ==
    LET g == EnsureDir(f, Parent(target))
    IN IF ~MkdirOK(f, Parent(target)) THEN [ok |-> FALSE, fs |-> f]
       ELSE IF IsDir(g, source)
            THEN IF CopyTreeOK(g, source, target)
                 THEN [ok |-> TRUE, fs |-> CopyTree(g, source, target)]
                 ELSE [ok |-> FALSE, fs |-> g]
       ELSE IF Copy2OK(g, source, target)
            THEN [ok |-> TRUE, fs |-> Copy2(g, source, target)]
            ELSE [ok |-> FALSE, fs |-> g]

\* Tools.store_storage_to_documents and Tools.store_uploads_to_documents,
\* which differ in the chroot of the source and in the default message
ToDocumentsResult(f, r, op, src_chroot, src, dest, message, default, links) ==
    LET dest_chroot == Append(ZoneRoot(DOCUMENTS), DATA)
        source == ResolveChrootPath(src_chroot, src, links)
        target == ResolveChrootPath(dest_chroot, dest, links)
        g == InitGitRepo(f, dest_chroot)
        cp == BridgeCopy(g, source.target, target.target)
    IN IF ~source.ok \/ ~target.ok
       THEN [fs |-> f, repo |-> r, resp |-> Response(op, FALSE, "PATH_ESCAPE", <<>>)]
       ELSE IF ~Exists(f, source.target)
            THEN [fs |-> f, repo |-> r, resp |-> Response(op, FALSE, "FILE_NOT_FOUND", <<>>)]
       ELSE IF ~cp.ok
            THEN [fs |-> cp.fs, repo |-> r, resp |-> Response(op, FALSE, Exc, <<>>)]
       ELSE [fs |-> cp.fs,
             repo |-> GitCommit(cp.fs, r, dest_chroot, MessageOr(message, default)),
             resp |-> Response(op, TRUE, "", <<>>)]

\* Tools.store_storage_to_documents
StorageToDocumentsResult(f, r, src, dest, message, links) ==
    ToDocumentsResult(f, r, "storage_to_documents", Append(ZoneRoot(STORAGE), DATA),
                      src, dest, message,
                      DefaultMessage("Import depuis Storage:", src), links)

\* Tools.store_uploads_to_documents
UploadsToDocumentsResult(f, r, conv_id, src, dest, message, links) ==
    ToDocumentsResult(f, r, "uploads_to_documents", Append(ZoneRoot(UPLOADS), conv_id),
                      src, dest, message, DefaultMessage("Import", src), links)

\* Tools.store_documents_to_storage
DocumentsToStorageResult(f, r, src, dest, message, links) ==
    LET src_chroot == Append(ZoneRoot(DOCUMENTS), DATA)
        dest_chroot == Append(ZoneRoot(STORAGE), DATA)
        source == ResolveChrootPath(src_chroot, src, links)
        target == ResolveChrootPath(dest_chroot, dest, links)
        cp == BridgeCopy(EnsureDir(f, dest_chroot), source.target, target.target)
        g == GitRm(cp.fs, r, src_chroot, source.target)
    IN IF ~source.ok \/ ~target.ok
       THEN [fs |-> f, repo |-> r,
             resp |-> Response("documents_to_storage", FALSE, "PATH_ESCAPE", <<>>)]
       ELSE IF ~Exists(f, source.target)
            THEN [fs |-> f, repo |-> r,
                  resp |-> Response("documents_to_storage", FALSE, "FILE_NOT_FOUND", <<>>)]
       ELSE IF ~cp.ok
            THEN [fs |-> cp.fs, repo |-> r,
                  resp |-> Response("documents_to_storage", FALSE, Exc, <<>>)]
       ELSE [fs |-> g,
             repo |-> GitCommit(g, r, src_chroot,
                                MessageOr(message, DefaultMessage("Move to Storage:", src))),
             resp |-> Response("documents_to_storage", TRUE, "", <<>>)]

-----------------------------------------------------------------------------
(* Command execution                                                       *)
(*                                                                         *)
(* subprocess.run starts the command in the chroot.  What it does there is *)
(* the command's own: touch makes the named files, rm removes them, the    *)
(* other commands of the runs below (ls, git status) change nothing.       *)
(* Whether the command is installed, fails to start, or outlives the       *)
(* timeout is the host's choice.                                           *)

\* Valves.exec_timeout_max
ExecTimeoutMax == 300

\* the builtins min and max on two integers
Min(a, b) == IF a <= b THEN a ELSE b
Max(a, b) == IF a >= b THEN a ELSE b

ClampTimeoutNoFloor(timeout, exec_timeout_max) == Min(timeout, exec_timeout_max)

\* Tools._clamp_timeout: max(1, min(timeout, self.valves.exec_timeout_max))
ClampTimeout(timeout, exec_timeout_max) == Max(1, Min(timeout, exec_timeout_max))

ValidatePathArgsNoAbsolute(args, chroot, links) ==
    \A i \in 1..Len(args) :
        Contains(args[i], DotDot) =>
            IsPrefix(Resolve(chroot, links), Resolve(PathJoin(chroot, args[i]), links))

ValidatePathArgsFirstOnly(args, chroot, links) ==
    \A i \in 1..Len(args) :
        i = 1 =>
            /\ ~(args[i] # <<>> /\ Head(args[i]) = "/")
            /\ Contains(args[i], DotDot) =>
                   IsPrefix(Resolve(chroot, links), Resolve(PathJoin(chroot, args[i]), links))

\* Tools._validate_path_args: TRUE when no StorageError("PATH_ESCAPE") is raised
ValidatePathArgs(args, chroot, links) ==
    \A i \in 1..Len(args) :
        /\ ~(args[i] # <<>> /\ Head(args[i]) = "/")
        /\ Contains(args[i], DotDot) =>
               IsPrefix(Resolve(chroot, links), Resolve(PathJoin(chroot, args[i]), links))

\* the operands of a command line: the arguments that are no options; an
\* operand names the file that the system finds by walking its segments
IsOption(arg) == arg # <<>> /\ (Head(arg) = "-" \/ Head(arg) = "-rf")

RECURSIVE Touch(_, _, _)
\* touch operand ...: an empty file where there is none and the parent is there
Touch(f, args, cwd) ==
    IF args = <<>> THEN f
    ELSE LET p == Resolve(PathJoin(cwd, Head(args)), NoLinks)
             g == IF ~IsOption(Head(args)) /\ ~Exists(f, p) /\ WriteOK(f, p)
                  THEN WriteFile(f, p, Text(<<>>)) ELSE f
         IN Touch(g, Tail(args), cwd)

RECURSIVE Rm(_, _, _, _)
\* rm [-rf] operand ...: files go; directories go with their content under -rf
Rm(f, args, cwd, recursive) ==
    IF args = <<>> THEN f
    ELSE LET p == Resolve(PathJoin(cwd, Head(args)), NoLinks)
             g == IF ~IsOption(Head(args)) /\ p # cwd /\ (IsFile(f, p) \/ (recursive /\ IsDir(f, p)))
                  THEN RmTree(f, p) ELSE f
         IN Rm(g, Tail(args), cwd, recursive)

\* the tree after the command has run to its end
Ran(f, cmd, args, cwd) ==
    IF cmd = "touch" THEN Touch(f, args, cwd)
    ELSE IF cmd = "rm" THEN Rm(f, args, cwd, \E i \in 1..Len(args) : args[i] = Str("-rf"))
    ELSE f

\* Tools._exec_command: the outcomes of subprocess.run; a command that is
\* killed at the timeout has run to its end or not at all
ExecCommand(f, cmd, args, cwd, timeout) ==
    {[fs |-> Ran(f, cmd, args, cwd), error |-> ""],
     [fs |-> f, error |-> "COMMAND_NOT_FOUND"],
     [fs |-> f, error |-> "EXEC_ERROR"],
     [fs |-> f, error |-> "TIMEOUT"],
     [fs |-> Ran(f, cmd, args, cwd), error |-> "TIMEOUT"]}

\* a call that ended before _exec_command
NotRun(f, op, error) ==
    {[fs |-> f, resp |-> Response(op, FALSE, error, <<>>), ran |-> FALSE, timeout |-> 0]}

\* the part that the exec handlers share: validation of the command, of the
\* arguments and of the paths in them, then the clamped timeout and the run
ValidateAndExec(f, op, cmd, args, chroot, whitelist, git_args, readonly, timeout, links) ==
    LET vc == ValidateCommand(cmd, whitelist, git_args)
        va == ValidateArgs(args, readonly)
        t == ClampTimeout(timeout, ExecTimeoutMax)
    IN IF ~vc.ok THEN NotRun(f, op, vc.error)
       ELSE IF ~va.ok THEN NotRun(f, op, va.error)
       ELSE IF ~ValidatePathArgs(args, chroot, links) THEN NotRun(f, op, "PATH_ESCAPE")
       ELSE {[fs |-> o.fs, resp |-> Response(op, o.error = "", o.error, <<>>),
              ran |-> TRUE, timeout |-> t] : o \in ExecCommand(f, cmd, args, chroot, t)}

\* Tools.store_uploads_exec
UploadsExecResults(f, conv_id, cmd, args, timeout, links) ==
    LET chroot == Append(ZoneRoot(UPLOADS), conv_id)
    IN IF ~Exists(f, chroot) THEN NotRun(f, "uploads_exec", Exc)
       ELSE ValidateAndExec(f, "uploads_exec", cmd, args, chroot,
                            WHITELIST_READONLY, NoArgs, TRUE, timeout, links)

\* Tools.store_storage_exec
StorageExecResults(f, cmd, args, timeout, links) ==
    LET chroot == Append(ZoneRoot(STORAGE), DATA)
    IN ValidateAndExec(EnsureDir(f, chroot), "storage_exec", cmd, args, chroot,
                       WHITELIST_READWRITE, args, FALSE, timeout, links)

\* Tools.store_documents_exec
DocumentsExecResults(f, cmd, args, timeout, links) ==
    LET chroot == Append(ZoneRoot(DOCUMENTS), DATA)
    IN ValidateAndExec(InitGitRepo(f, chroot), "documents_exec", cmd, args, chroot,
                       WHITELIST_READWRITE, args, FALSE, timeout, links)

\* Tools.store_storage_edit_exec / Tools.store_documents_edit_exec
EditExecResults(f, z, conv_id, cmd, args, timeout, links) ==
    LET chroot == Append(Append(ZoneRoot(z), EDITZONE), conv_id)
    IN IF ~Exists(f, chroot) THEN NotRun(f, "edit_exec", "ZONE_FORBIDDEN")
       ELSE ValidateAndExec(f, "edit_exec", cmd, args, chroot,
                            WHITELIST_READWRITE, args, FALSE, timeout, links)

-----------------------------------------------------------------------------
(* store_force_unlock                                                      *)

\* str.lower() on the letters: the zone argument is a string of characters
UpperCase ==
    <<"A", "B", "C", "D", "E", "F", "G", "H", "I", "J", "K", "L", "M",
      "N", "O", "P", "Q", "R", "S", "T", "U", "V", "W", "X", "Y", "Z">>
LowerCase ==
    <<"a", "b", "c", "d", "e", "f", "g", "h", "i", "j", "k", "l", "m",
      "n", "o", "p", "q", "r", "s", "t", "u", "v", "w", "x", "y", "z">>
Lower(s) ==
    [i \in 1..Len(s) |->
        IF \E k \in 1..Len(UpperCase) : UpperCase[k] = s[i]
        THEN LowerCase[CHOOSE k \in 1..Len(UpperCase) : UpperCase[k] = s[i]]
        ELSE s[i]]

ZoneStorage == <<"s", "t", "o", "r", "a", "g", "e">>
ZoneDocuments == <<"d", "o", "c", "u", "m", "e", "n", "t", "s">>

ZoneAcceptedAsGiven(zone) == zone \in {ZoneStorage, ZoneDocuments}

\* zone.lower() in ("storage", "documents")
ZoneAccepted(zone) == Lower(zone) \in {ZoneStorage, ZoneDocuments}

RECURSIVE UnlockConvDirs(_, _, _, _)
\* the loop over editzone_base.iterdir(): the copy of the path goes from every
\* conversation's directory (each removal stays inside its conv_dir, so the
\* order of the listing makes no difference)
UnlockConvDirs(f, editzone_base, conv_dirs, path) ==
    IF conv_dirs = {} THEN f
    ELSE LET conv_dir == CHOOSE d \in conv_dirs : TRUE
             edit_path == PathJoin(conv_dir, path)
             g == IF IsDir(f, conv_dir) /\ Exists(f, edit_path)
                  THEN RmWithEmptyParents(f, edit_path, editzone_base) ELSE f
         IN UnlockConvDirs(g, editzone_base, conv_dirs \ {conv_dir}, path)

\* Tools.store_force_unlock
ForceUnlockResult(f, raw, zone) ==
    LET v == ValidateRelativePath(raw)
        zone_root == ZoneRoot(IF Lower(zone) = ZoneStorage THEN STORAGE ELSE DOCUMENTS)
        lock_path == GetLockPath(zone_root, v.path)
        editzone_base == Append(zone_root, EDITZONE)
        g == IF Exists(f, editzone_base)
             THEN UnlockConvDirs(f, editzone_base, Children(f, editzone_base), v.path)
             ELSE f
    IN IF ~v.ok
       THEN [fs |-> f, resp |-> Response("force_unlock", FALSE, v.error, <<>>)]
       ELSE IF ~ZoneAccepted(zone)
            THEN [fs |-> f, resp |-> Response("force_unlock", FALSE, "ZONE_FORBIDDEN", <<>>)]
       ELSE [fs |-> IF Exists(g, lock_path)
                    THEN RmWithEmptyParents(g, lock_path, Append(zone_root, LOCKS)) ELSE g,
             resp |-> Response("force_unlock", TRUE, "", <<>>)]

-----------------------------------------------------------------------------
(* store_maintenance                                                       *)
(*                                                                         *)
(* Both sweeps walk a tree with Path.rglob while the loop body deletes     *)
(* from it.  rglob lists a directory, hands its entries to the loop body,  *)
(* and then lists the same directory again to find its sub-directories.    *)
(* When the body has removed the directory in between (its last entry      *)
(* went, so _rm_with_empty_parents removed the empty parent), the second   *)
(* listing raises FileNotFoundError in the pathlib of Python <= 3.11 (only *)
(* PermissionError is caught there), which leaves store_maintenance        *)
(* through its outer "except Exception"; later pathlib versions skip the   *)
(* missing directory.  raises = TRUE is the first behaviour, FALSE the     *)
(* second.  The order of the entries of one directory does not change the  *)
(* result (every listed entry is handled before the second listing); the   *)
(* order of the conversation directories under editzone/ does.             *)

IsLockName(p) == p # <<>> /\ p[Len(p)] # <<>> /\ p[Len(p)][Len(p[Len(p)])] = ".lock"

\* str(rel_path)[:-5]
StripLock(rel) ==
    Join([i \in 1..Len(rel) |->
            IF i = Len(rel) THEN SubSeq(rel[i], 1, Len(rel[i]) - 1) ELSE rel[i]])

\* age_hours > max_age_hours
Expired(c, t) == t - c.locked_at > LockMaxAgeHours

\* the body of the loop over locks_dir.rglob("*.lock"): JSONDecodeError
\* removes the record, ValueError and TypeError (a date that does not parse,
\* a date without time zone) are passed over, a record without locked_at is
\* skipped, and the AttributeError of lock_data.get on a value that is no
\* object is caught by none of the three and leaves store_maintenance
SweepLock(f, zone_root, lock_file, t) ==
    LET locks_dir == Append(zone_root, LOCKS)
        editzone_dir == Append(zone_root, EDITZONE)
        c == f[lock_file].c
        path_str == StripLock(Rel(lock_file, locks_dir))
        edit_path == PathJoin(Append(editzone_dir, c.conv_id), path_str)
        g == IF c.conv_id # <<>> /\ Exists(f, edit_path)
             THEN RmWithEmptyParents(f, edit_path, editzone_dir) ELSE f
    IN IF c.tag = "text"
       THEN [fs |-> RmWithEmptyParents(f, lock_file, locks_dir), aborted |-> FALSE]
       ELSE IF ~IsObject(c) THEN [fs |-> f, aborted |-> TRUE]
       ELSE IF IsJson(c) /\ Expired(c, t)
            THEN [fs |-> RmWithEmptyParents(g, lock_file, locks_dir), aborted |-> FALSE]
       ELSE [fs |-> f, aborted |-> FALSE]

RECURSIVE SweepLockFiles(_, _, _, _)
\* the loop goes on with the files left unless the body raised
SweepLockRest(r, zone_root, files, t) ==
    IF r.aborted THEN r ELSE SweepLockFiles(r.fs, zone_root, files, t)

SweepLockFiles(f, zone_root, files, t) ==
    IF files = {} THEN [fs |-> f, aborted |-> FALSE]
    ELSE LET x == CHOOSE x \in files : TRUE
         IN SweepLockRest(SweepLock(f, zone_root, x, t), zone_root, files \ {x}, t)

RECURSIVE SweepLockDir(_, _, _, _, _)
RECURSIVE SweepLockDirs(_, _, _, _, _)
\* the second listing of dir, after the loop body has handled its lock files
SweepLockBelow(r, zone_root, dir, t, raises) ==
    IF r.aborted THEN r
    ELSE IF ~Exists(r.fs, dir)
         THEN [fs |-> r.fs, aborted |-> raises]
         ELSE SweepLockDirs(r.fs, zone_root, {q \in Children(r.fs, dir) : IsDir(r.fs, q)},
                            t, raises)

\* rglob("*.lock") below dir: the lock files of dir, then each sub-directory;
\* listing a directory the loop body has removed raises on some interpreters
SweepLockDir(f, zone_root, dir, t, raises) ==
    SweepLockBelow(SweepLockFiles(f, zone_root,
                                  {q \in Children(f, dir) : IsFile(f, q) /\ IsLockName(q)}, t),
                   zone_root, dir, t, raises)

SweepLockDirsRest(r, zone_root, dirs, t, raises) ==
    IF r.aborted THEN r ELSE SweepLockDirs(r.fs, zone_root, dirs, t, raises)

SweepLockDirs(f, zone_root, dirs, t, raises) ==
    IF dirs = {} THEN [fs |-> f, aborted |-> FALSE]
    ELSE LET d == CHOOSE d \in dirs : TRUE
         IN SweepLockDirsRest(SweepLockDir(f, zone_root, d, t, raises),
                              zone_root, dirs \ {d}, t, raises)

\* item.is_file() and not (locks_dir / (str(rel_path) + ".lock")).exists()
IsOrphan(f, zone_root, conv_dir, item) ==
    IsFile(f, item)
    /\ ~Exists(f, PathJoin(Append(zone_root, LOCKS), Join(Rel(item, conv_dir)) \o <<".lock">>))

RECURSIVE SweepItems(_, _, _, _)
SweepItems(f, zone_root, conv_dir, items) ==
    IF items = {} THEN f
    ELSE LET x == CHOOSE x \in items : TRUE
             g == IF IsOrphan(f, zone_root, conv_dir, x)
                  THEN RmWithEmptyParents(f, x, Append(zone_root, EDITZONE)) ELSE f
         IN SweepItems(g, zone_root, conv_dir, items \ {x})

RECURSIVE SweepEditDir(_, _, _, _, _)
RECURSIVE SweepEditDirs(_, _, _, _, _)
\* conv_dir.rglob("*") below dir
SweepEditDir(f, zone_root, conv_dir, dir, raises) ==
    LET g == SweepItems(f, zone_root, conv_dir, Children(f, dir))
    IN IF ~Exists(g, dir)
       THEN [fs |-> g, aborted |-> raises]
       ELSE SweepEditDirs(g, zone_root, conv_dir, {q \in Children(g, dir) : IsDir(g, q)}, raises)

SweepEditDirs(f, zone_root, conv_dir, dirs, raises) ==
    IF dirs = {} THEN [fs |-> f, aborted |-> FALSE]
    ELSE LET d == CHOOSE d \in dirs : TRUE
             r == SweepEditDir(f, zone_root, conv_dir, d, raises)
         IN IF r.aborted THEN r
            ELSE SweepEditDirs(r.fs, zone_root, conv_dir, dirs \ {d}, raises)

RECURSIVE SweepConvDirs(_, _, _, _)
\* the loop over editzone_dir.iterdir(), in the order the listing gives
SweepConvDirs(f, zone_root, order, raises) ==
    IF order = <<>> THEN [fs |-> f, aborted |-> FALSE]
    ELSE LET conv_dir == Head(order)
             r == IF IsDir(f, conv_dir)
                  THEN SweepEditDir(f, zone_root, conv_dir, conv_dir, raises)
                  ELSE [fs |-> f, aborted |-> FALSE]
         IN IF r.aborted THEN r
            ELSE SweepConvDirs(r.fs, zone_root, Tail(order), raises)

\* the listings editzone_dir.iterdir() can give
Orderings(S) ==
    {o \in [1..Cardinality(S) -> S] : \A i, j \in 1..Cardinality(S) : i # j => o[i] # o[j]}

\* the second step of a pass: the orphan sweep, unless the lock sweep raised
MaintainEditzone(r, zone_root, order, raises) ==
    IF r.aborted THEN r
    ELSE IF Exists(r.fs, Append(zone_root, EDITZONE))
         THEN SweepConvDirs(r.fs, zone_root, order, raises)
         ELSE r

\* one pass of the loop "for zone_name in (Storage, Documents)"
MaintainZone(f, z, t, order, raises) ==
    MaintainEditzone(IF Exists(f, Append(ZoneRoot(z), LOCKS))
                     THEN SweepLockDir(f, ZoneRoot(z), Append(ZoneRoot(z), LOCKS), t, raises)
                     ELSE [fs |-> f, aborted |-> FALSE],
                     ZoneRoot(z), order, raises)

\* the pass over Documents, unless the pass over Storage raised
MaintainDocuments(rs, t, orderD, raises) ==
    IF rs.aborted THEN rs ELSE MaintainZone(rs.fs, DOCUMENTS, t, orderD, raises)

\* the return of store_maintenance; the except clause turns the exception
\* into a failure response
MaintenanceResponse(rd) ==
    [fs |-> rd.fs,
     resp |-> Response("maintenance", ~rd.aborted, IF rd.aborted THEN Exc ELSE "", <<>>)]

\* Tools.store_maintenance; orderS, orderD: the iterdir listings of the two
\* editzone directories
MaintenanceResult(f, t, orderS, orderD, raises) ==
    MaintenanceResponse(MaintainDocuments(MaintainZone(f, STORAGE, t, orderS, raises),
                                          t, orderD, raises))


-----------------------------------------------------------------------------
(* The zone state machine                                                  *)

MaxOps == 3
MaxContentLen == 2

Convs == {Str("A"), Str("B")}
Zones == {STORAGE, DOCUMENTS}
OpenPaths == {<<"f">>, <<"d">>, <<"d", "/", "f">>, <<".", ".", "/", "f">>}
WritePaths == {<<"f">>, <<"d", "/", "f">>}
ClosePaths == {<<"f">>, <<"d">>, <<"d", "/", "f">>}
\* what a write call carries: the content and the append flag
Writes == {<<<<"y">>, FALSE>>, <<<<"y">>, TRUE>>, <<<<"BIG">>, FALSE>>}
\* the instants at which operations are issued: a lock taken at 0 has the
\* maximum age at the second instant and is older at the third
Instants == {0, LockMaxAgeHours, LockMaxAgeHours + 1}

\* each zone holds data/f and data/d/f, written by store_*_write; the
\* Documents repository is initialised and the two files are committed
InitTree(z) ==
    {<<Append(ZoneRoot(z), DATA), DirNode>>,
     <<DataPath(ZoneRoot(z), <<"f">>), FileNode(Text(<<"x">>))>>,
     <<DataPath(ZoneRoot(z), <<"d">>), DirNode>>,
     <<DataPath(ZoneRoot(z), <<"d", "/", "f">>), FileNode(Text(<<"x">>))>>}

InitNodes ==
    {<<q, DirNode>> : q \in Prefixes(UserRoot) \cup {ZoneRoot(z) : z \in Zones}}
    \cup InitTree(STORAGE) \cup InitTree(DOCUMENTS)
    \cup {<<Append(Append(ZoneRoot(DOCUMENTS), DATA), GITDIR), DirNode>>}

InitFs == [q \in {n[1] : n \in InitNodes} |-> (CHOOSE n \in InitNodes : n[1] = q)[2]]

\* the same tree with data/d of zone z emptied (its file deleted; in Documents
\* the deletion committed and the directory made again)
EmptiedDir(f, z) == Remove(f, {DataPath(ZoneRoot(z), <<"d", "/", "f">>)})

NoTree == Subtree(InitFs, <<Str("none")>>)

\* the repository behind a tree f made from InitFs: data/f and data/d/f were
\* written one after the other; where data/d/f is gone its deletion followed
InitRepo(f) ==
    LET chroot == Append(ZoneRoot(DOCUMENTS), DATA)
        first == Remove(InitFs, {DataPath(ZoneRoot(DOCUMENTS), <<"d", "/", "f">>)})
        r1 == GitCommit(first, NoRepo, chroot, DefaultMessage("Created", <<"f">>))
        r2 == GitCommit(InitFs, r1, chroot, DefaultMessage("Created", <<"d", "/", "f">>))
    IN GitCommit(f, r2, chroot, DefaultMessage("Suppression de", <<"d", "/", "f">>))

\* what the last calls were, kept for the statements about call sequences:
\* st is "open" from a successful edit_open on a path that was not locked while
\* only the same conversation writes into its edit zone, "cancelled" or "saved"
\* after the call that ends it, "swept" after store_maintenance, "created"
\* after a store_documents_write that made a new file and "renamed" after the
\* store_documents_rename of that file that follows it (log is the commit
\* log before the write); pre is the
\* tree before the first call of the sequence, final the edit-zone copy that
\* edit_save found, at the time of the call
NoWrite ==
    [chroot |-> <<>>, path |-> <<>>, content |-> <<>>, append |-> FALSE,
     target |-> <<>>, pre |-> NoTree]
NoSess ==
    [st |-> "none", conv |-> <<>>, zone |-> <<>>, path |-> <<>>,
     pre |-> NoTree, final |-> NoTree, wrote |-> FALSE, pure |-> FALSE, at |-> 0,
     last |-> NoWrite, log |-> <<>>]

\* what the last call was when it was a write: its arguments, the path it
\* resolves to below its chroot, and what was there before the call
LastWrite(f, chroot, raw, content, append, links) ==
    LET r == ResolveChrootPath(chroot, raw, links)
    IN [chroot |-> chroot, path |-> raw, content |-> content, append |-> append,
        target |-> r.target,
        pre |-> IF r.ok THEN Subtree(f, r.target) ELSE NoTree]

IdleOp == [pc |-> "idle", zone |-> <<>>, path |-> <<>>, ok |-> FALSE, error |-> ""]
NoCall == [fn |-> "none"]
NoResp == Response("none", TRUE, "", <<>>)

\* the state after conversation c has opened data/f of zone z at time 0
OpenedBefore(z, c) == EditOpenResult(InitFs, z, c, <<"f">>, 0).fs

ZoneInit(F) ==
    /\ fs \in F
    /\ symlinks = NoLinks
    /\ now = 0
    /\ repo = InitRepo(fs)
    /\ resp = NoResp
    /\ sess = NoSess
    /\ opc = [c \in Convs |-> IdleOp]
    /\ nops = 0
    /\ live = TRUE

\* operations on the Storage zone; conversation B has Documents/data/f open
Init ==
    LET f == OpenedBefore(DOCUMENTS, Str("B"))
    IN ZoneInit({f, EmptiedDir(f, STORAGE)}) /\ call = NoCall

\* operations on the Documents zone; conversation B has Storage/data/f open
DocInit ==
    LET f == OpenedBefore(STORAGE, Str("B"))
    IN ZoneInit({f, EmptiedDir(f, DOCUMENTS)}) /\ call = NoCall

ContentsBounded(f) ==
    \A q \in DOMAIN f : f[q].c.tag = "text" => Len(f[q].c.s) <= MaxContentLen

\* time passes between two operations
\* A run is not continued after an operation that left the disk as it was:
\* what can follow it is what can follow the state before it.
Running == live /\ nops < MaxOps

Tick(t) ==
    /\ Running
    /\ t > now
    /\ now' = t
    /\ resp' = NoResp
    /\ UNCHANGED <<fs, symlinks, repo, sess, opc, nops, live, call>>

\* one handler runs from call to return
Operation(newfs, newrepo, newresp, newsess) ==
    /\ nops' = nops + 1
    /\ fs' = newfs
    /\ repo' = newrepo
    /\ resp' = newresp
    /\ sess' = newsess
    /\ live' = (newfs # fs \/ newrepo # repo)
    /\ UNCHANGED <<symlinks, now, opc, call>>

EditOpen(z, c, raw) ==
    /\ Running
    /\ \E r \in {EditOpenResult(fs, z, c, raw, now)} :
       LET path == ValidateRelativePath(raw).path
           wasFree == ~Exists(fs, GetLockPath(ZoneRoot(z), path))
       IN Operation(r.fs, repo, r.resp,
                    IF r.resp.ok /\ wasFree
                    THEN [NoSess EXCEPT !.st = "open", !.conv = c, !.zone = z, !.path = path,
                                        !.pre = Subtree(fs, Append(ZoneRoot(z), DATA))]
                    ELSE NoSess)

EditWrite(z, c, raw, content, append) ==
    /\ Running
    /\ \E r \in {EditWriteResult(fs, z, c, raw, content, append, symlinks)} :
       /\ ContentsBounded(r.fs)
       /\ LET last == LastWrite(fs, Append(Append(ZoneRoot(z), EDITZONE), c),
                                 raw, content, append, symlinks)
          IN Operation(r.fs, repo, r.resp,
                       IF sess.st = "open" /\ sess.conv = c /\ sess.zone = z
                       THEN [sess EXCEPT !.wrote = sess.wrote \/ r.resp.ok, !.last = last]
                       ELSE [NoSess EXCEPT !.last = last])

EditSave(z, c, raw) ==
    /\ Running
    /\ \E r \in {EditSaveResult(fs, repo, z, c, raw)} :
       LET path == ValidateRelativePath(raw).path
           mine == sess.st = "open" /\ sess.conv = c /\ sess.zone = z /\ sess.path = path
       IN Operation(r.fs, r.repo, r.resp,
                    IF r.resp.ok
                    THEN [NoSess EXCEPT !.st = "saved", !.conv = c, !.zone = z, !.path = path,
                                        !.final = Subtree(fs, GetEditzonePath(ZoneRoot(z), c, path)),
                                        !.wrote = mine /\ sess.wrote, !.pure = mine]
                    ELSE NoSess)

EditCancel(z, c, raw) ==
    /\ Running
    /\ \E r \in {EditCancelResult(fs, z, c, raw)} :
       LET path == ValidateRelativePath(raw).path
           mine == sess.st = "open" /\ sess.conv = c /\ sess.zone = z /\ sess.path = path
       IN Operation(r.fs, repo, r.resp,
                    IF r.resp.ok /\ mine
                    THEN [sess EXCEPT !.st = "cancelled", !.pure = TRUE, !.last = NoWrite]
                    ELSE NoSess)

StorageWrite(raw, content, append) ==
    /\ Running
    /\ \E r \in {StorageWriteResult(fs, raw, content, append, symlinks)} :
       /\ ContentsBounded(r.fs)
       /\ Operation(r.fs, repo, r.resp,
                    [NoSess EXCEPT !.last = LastWrite(fs, Append(ZoneRoot(STORAGE), DATA),
                                                      raw, content, append, symlinks)])

StorageDelete(raw) ==
    /\ Running
    /\ \E r \in {StorageDeleteResult(fs, raw, symlinks)} :
       Operation(r.fs, repo, r.resp, NoSess)

ConvDirs(z, order) == [i \in DOMAIN order |-> Append(Append(ZoneRoot(z), EDITZONE), order[i])]

Maintenance(order, raises) ==
    /\ Running
    /\ \E r \in {MaintenanceResult(fs, now, ConvDirs(STORAGE, order),
                                ConvDirs(DOCUMENTS, order), raises)} :
       Operation(r.fs, repo, r.resp,
                 [NoSess EXCEPT !.st = "swept", !.pre = fs, !.at = now])

Next ==
    \/ \E t \in Instants : Tick(t)
    \/ \E c \in Convs, raw \in OpenPaths : EditOpen(STORAGE, c, raw)
    \/ \E c \in Convs, raw \in WritePaths, w \in Writes : EditWrite(STORAGE, c, raw, w[1], w[2])
    \/ \E c \in Convs, raw \in ClosePaths : EditSave(STORAGE, c, raw)
    \/ \E c \in Convs, raw \in ClosePaths : EditCancel(STORAGE, c, raw)
    \/ \E raw \in WritePaths, w \in Writes : StorageWrite(raw, w[1], w[2])
    \/ \E raw \in OpenPaths : StorageDelete(raw)
    \/ \E order \in Orderings(Convs), raises \in BOOLEAN : Maintenance(order, raises)

Spec == Init /\ [][Next]_vars

DocNext ==
    \/ \E t \in Instants : Tick(t)
    \/ \E c \in Convs, raw \in OpenPaths : EditOpen(DOCUMENTS, c, raw)
    \/ \E c \in Convs, raw \in WritePaths, w \in Writes : EditWrite(DOCUMENTS, c, raw, w[1], w[2])
    \/ \E c \in Convs, raw \in ClosePaths : EditSave(DOCUMENTS, c, raw)
    \/ \E c \in Convs, raw \in ClosePaths : EditCancel(DOCUMENTS, c, raw)
    \/ \E order \in Orderings(Convs), raises \in BOOLEAN : Maintenance(order, raises)

SpecDocuments == DocInit /\ [][DocNext]_vars

-----------------------------------------------------------------------------
(* The direct operations, from an empty user root                          *)

DirectPaths == {<<"f">>, <<"notes", "/", "a.txt">>}
DeletePaths == DirectPaths \cup {<<"notes">>}
RenameDests == DirectPaths \cup {<<"notes">>, <<"g">>}
BridgeDests == {<<"f">>, <<"g">>}
\* content and append flag of a write: two characters, a character of two
\* bytes, a content over the size limit
DirectWrites ==
    {<<<<"h", "i">>, FALSE>>, <<<<"eacute">>, FALSE>>, <<<<"eacute">>, TRUE>>,
     <<<<"BIG">>, FALSE>>, <<<<"BIG">>, TRUE>>}
Messages == {<<>>, <<"m">>}

\* nothing is stored yet; conversation A has imported the upload u
DirectNodes ==
    {<<q, DirNode>> : q \in Prefixes(Append(ZoneRoot(UPLOADS), Str("A")))}
    \cup {<<Append(Append(ZoneRoot(UPLOADS), Str("A")), Str("u")),
            FileNode(Text(<<"h", "i">>))>>}

DirectFs == [q \in {n[1] : n \in DirectNodes} |-> (CHOOSE n \in DirectNodes : n[1] = q)[2]]

DirectInit ==
    /\ fs = DirectFs
    /\ symlinks = NoLinks
    /\ now = 0
    /\ repo = NoRepo
    /\ resp = NoResp
    /\ sess = NoSess
    /\ opc = [c \in Convs |-> IdleOp]
    /\ nops = 0
    /\ live = TRUE
    /\ call = NoCall

DocumentsWrite(raw, content, append, message) ==
    /\ Running
    /\ \E r \in {DocumentsWriteResult(fs, repo, raw, content, append, message, symlinks)} :
       /\ ContentsBounded(r.fs)
       /\ LET last == LastWrite(fs, Append(ZoneRoot(DOCUMENTS), DATA),
                                raw, content, append, symlinks)
              created == r.resp.ok /\ ~Exists(fs, last.target)
          IN Operation(r.fs, r.repo, r.resp,
                       IF created
                       THEN [NoSess EXCEPT !.st = "created", !.last = last, !.log = repo.log]
                       ELSE [NoSess EXCEPT !.last = last])

DocumentsDelete(raw, message) ==
    /\ Running
    /\ \E r \in {DocumentsDeleteResult(fs, repo, raw, message, symlinks)} :
       Operation(r.fs, r.repo, r.resp, NoSess)

DocumentsRename(old_path, new_path, message) ==
    /\ Running
    /\ \E r \in {DocumentsRenameResult(fs, repo, old_path, new_path, message, symlinks)} :
       LET source == ResolveChrootPath(Append(ZoneRoot(DOCUMENTS), DATA), old_path, symlinks)
       IN Operation(r.fs, r.repo, r.resp,
                    IF r.resp.ok /\ sess.st = "created" /\ source.target = sess.last.target
                    THEN [sess EXCEPT !.st = "renamed"]
                    ELSE NoSess)

StorageToDocuments(src, dest, message) ==
    /\ Running
    /\ \E r \in {StorageToDocumentsResult(fs, repo, src, dest, message, symlinks)} :
       Operation(r.fs, r.repo, r.resp, NoSess)

UploadsToDocuments(c, src, dest, message) ==
    /\ Running
    /\ \E r \in {UploadsToDocumentsResult(fs, repo, c, src, dest, message, symlinks)} :
       Operation(r.fs, r.repo, r.resp, NoSess)

DocumentsToStorage(src, dest, message) ==
    /\ Running
    /\ \E r \in {DocumentsToStorageResult(fs, repo, src, dest, message, symlinks)} :
       Operation(r.fs, r.repo, r.resp, NoSess)

DirectNext ==
    \/ \E raw \in DirectPaths, w \in DirectWrites : StorageWrite(raw, w[1], w[2])
    \/ \E raw \in DirectPaths, w \in DirectWrites, message \in Messages :
          DocumentsWrite(raw, w[1], w[2], message)
    \/ \E raw \in DeletePaths : DocumentsDelete(raw, <<>>)
    \/ \E old_path \in DirectPaths, new_path \in RenameDests :
          DocumentsRename(old_path, new_path, <<>>)
    \/ \E dest \in BridgeDests : StorageToDocuments(<<"f">>, dest, <<>>)
    \/ \E dest \in BridgeDests : UploadsToDocuments(Str("A"), <<"u">>, dest, <<>>)
    \/ \E src \in DirectPaths, dest \in BridgeDests : DocumentsToStorage(src, dest, <<>>)
    \/ \E raw \in DeletePaths : EditOpen(DOCUMENTS, Str("A"), raw)
    \/ \E raw \in DirectPaths, w \in DirectWrites :
          EditWrite(DOCUMENTS, Str("A"), raw, w[1], w[2])
    \/ \E raw \in DeletePaths : EditSave(DOCUMENTS, Str("A"), raw)

SpecDirect == DirectInit /\ [][DirectNext]_vars

-----------------------------------------------------------------------------
(* The exec entry points                                                   *)

ExecCommands == {"bash", "rm", "ls", "touch", "git"}
\* the argument lists: none, -rf /, an absolute path, a name, "..", a name
\* with two dots in it, -c ls, a git sub-command, a separator, d/.. (the
\* root again), and ".." after a name
ExecArgs ==
    {<<>>, <<Str("-rf"), Str("/")>>, <<<<"/", "etc">>>>, <<Str("f")>>, <<DotDot>>,
     <<<<"f", ".", ".">>>>, <<Str("-c"), Str("ls")>>, <<Str("status")>>, <<Str(";")>>,
     <<<<"d", "/", ".", ".">>>>, <<Str("f"), DotDot>>}
ExecTimeouts == {0, ExecTimeoutMax + 100}
MaxExecOps == 2

\* the user roots the calls start from: nothing stored and nothing uploaded,
\* one upload of conversation A, and the two zones filled with conversation A
\* editing data/f of one of them
ExecTrees ==
    {[q \in Prefixes(UserRoot) |-> DirNode], DirectFs,
     OpenedBefore(STORAGE, Str("A")), OpenedBefore(DOCUMENTS, Str("A"))}

ExecInit ==
    /\ fs \in ExecTrees
    /\ symlinks = NoLinks
    /\ now = 0
    /\ repo = IF Exists(fs, Append(Append(ZoneRoot(DOCUMENTS), DATA), GITDIR))
              THEN InitRepo(fs) ELSE NoRepo
    /\ resp = NoResp
    /\ sess = NoSess
    /\ opc = [c \in Convs |-> IdleOp]
    /\ nops = 0
    /\ live = TRUE
    /\ call = NoCall

\* one exec handler runs from call to return; call keeps what was asked,
\* the tree before the call, whether _exec_command was reached and the
\* timeout handed to it
ExecOperation(fn, c, cmd, args, r) ==
    /\ nops' = nops + 1
    /\ fs' = r.fs
    /\ resp' = r.resp
    /\ sess' = NoSess
    /\ live' = (r.fs # fs)
    /\ call' = [fn |-> fn, conv |-> c, cmd |-> cmd, args |-> args, pre |-> fs,
                ran |-> r.ran, timeout |-> r.timeout]
    /\ UNCHANGED <<symlinks, now, repo, opc>>

UploadsExec(c, cmd, args, timeout) ==
    /\ Running
    /\ nops < MaxExecOps
    /\ \E r \in UploadsExecResults(fs, c, cmd, args, timeout, symlinks) :
          ExecOperation("store_uploads_exec", c, cmd, args, r)

StorageExec(c, cmd, args, timeout) ==
    /\ Running
    /\ nops < MaxExecOps
    /\ \E r \in StorageExecResults(fs, cmd, args, timeout, symlinks) :
          ExecOperation("store_storage_exec", c, cmd, args, r)

DocumentsExec(c, cmd, args, timeout) ==
    /\ Running
    /\ nops < MaxExecOps
    /\ \E r \in DocumentsExecResults(fs, cmd, args, timeout, symlinks) :
          ExecOperation("store_documents_exec", c, cmd, args, r)

StorageEditExec(c, cmd, args, timeout) ==
    /\ Running
    /\ nops < MaxExecOps
    /\ \E r \in EditExecResults(fs, STORAGE, c, cmd, args, timeout, symlinks) :
          ExecOperation("store_storage_edit_exec", c, cmd, args, r)

DocumentsEditExec(c, cmd, args, timeout) ==
    /\ Running
    /\ nops < MaxExecOps
    /\ \E r \in EditExecResults(fs, DOCUMENTS, c, cmd, args, timeout, symlinks) :
          ExecOperation("store_documents_edit_exec", c, cmd, args, r)

ExecNext ==
    \E cmd \in ExecCommands, args \in ExecArgs, timeout \in ExecTimeouts :
        \/ \E c \in Convs : UploadsExec(c, cmd, args, timeout)
        \/ StorageExec(Str("A"), cmd, args, timeout)
        \/ DocumentsExec(Str("A"), cmd, args, timeout)
        \/ \E c \in Convs : StorageEditExec(c, cmd, args, timeout)
        \/ \E c \in Convs : DocumentsEditExec(c, cmd, args, timeout)

SpecExec == ExecInit /\ [][ExecNext]_vars

-----------------------------------------------------------------------------
(* Two conversations on one zone, with lock records of every kind          *)

\* conversation A has Storage/data/f open, conversation B Documents/data/f
BothOpen == EditOpenResult(OpenedBefore(STORAGE, Str("A")), DOCUMENTS, Str("B"), <<"f">>, 0).fs

\* lock records that _create_lock did not write
MalformedRecords ==
    {Garbled, JsonList, LockRec(<<>>, 0, <<"f">>),
     Undated("nodate", Str("A"), <<"f">>), Undated("baddate", Str("A"), <<"f">>),
     Undated("naive", Str("A"), <<"f">>)}

\* B has Documents/data/f open; Storage/locks/f.lock holds the content c and
\* nobody has an edit-zone copy of Storage/data/f
LeftBehind(c) ==
    LET g == OpenedBefore(DOCUMENTS, Str("B"))
        lock_path == GetLockPath(ZoneRoot(STORAGE), <<"f">>)
    IN WriteFile(EnsureDir(g, Parent(lock_path)), lock_path, c)

LockTrees == {BothOpen} \cup {LeftBehind(c) : c \in MalformedRecords}

\* the arguments of the calls
LockPaths == {<<"f">>, <<"d">>, <<"d", "/", "f">>}
StrayPaths == {<<"f">>, <<"d", "/", "f">>}
EditCommands == {<<"ls", <<>>>>, <<"touch", <<Str("g")>>>>}
ZoneNames ==
    {ZoneStorage, ZoneDocuments, <<"S", "t", "o", "r", "a", "g", "e">>,
     <<"u", "p", "l", "o", "a", "d", "s">>}

EditRoot(z, c) == Append(Append(ZoneRoot(z), EDITZONE), c)

\* the edit zone of conversation c holds the copy of path p and nothing else
OnlyCopy(f, z, c, p) ==
    \A q \in Descendants(f, EditRoot(z, c)) :
        IsPrefix(q, GetEditzonePath(ZoneRoot(z), c, p))
        \/ IsPrefix(GetEditzonePath(ZoneRoot(z), c, p), q)

\* The calls of a conversation, kept for the statements about what follows
\* the end of an edit: st is "open" while conversation conv has path open and
\* has opened nothing else, "closed" after its edit_save or edit_cancel of
\* that path (pure: its edit zone held only the copy of the path then), and
\* "next" after its first edit-zone write or exec that follows.
Opened(z, c, p) == [NoSess EXCEPT !.st = "open", !.conv = c, !.zone = z, !.path = p]

LockInit ==
    /\ fs \in LockTrees
    /\ symlinks = NoLinks
    /\ now = 0
    /\ repo = InitRepo(fs)
    /\ resp = NoResp
    /\ sess = IF fs = BothOpen THEN Opened(STORAGE, Str("A"), <<"f">>) ELSE NoSess
    /\ opc = [c \in Convs |-> IdleOp]
    /\ nops = 0
    /\ live = TRUE
    /\ call = NoCall

\* one handler runs from call to return; call keeps who asked for what, the
\* tree before the call and the number of commits before it
Handled(fn, c, z, raw, newfs, newrepo, newresp, newsess) ==
    /\ nops' = nops + 1
    /\ fs' = newfs
    /\ repo' = newrepo
    /\ resp' = newresp
    /\ sess' = newsess
    /\ live' = (newfs # fs)
    /\ call' = [fn |-> fn, conv |-> c, zone |-> z, path |-> raw, pre |-> fs, at |-> now,
                commits |-> Len(repo.log)]
    /\ UNCHANGED <<symlinks, now, opc>>

\* the history after a call of conversation c that is neither the open nor
\* the end of an edit
Kept(c) == IF sess.st \in {"open", "closed"} /\ sess.conv # c THEN sess ELSE NoSess
KeptOpen(c) == IF sess.st = "open" THEN sess ELSE Kept(c)
Follows(z, c) ==
    IF sess.st = "closed" /\ sess.conv = c /\ sess.zone = z
    THEN [sess EXCEPT !.st = "next"]
    ELSE KeptOpen(c)

LockedOpen(z, c, raw) ==
    /\ Running
    /\ \E r \in {EditOpenResult(fs, z, c, raw, now)} :
          Handled("edit_open", c, z, raw, r.fs, repo, r.resp,
                  IF /\ r.resp.ok
                     /\ ~Exists(fs, EditRoot(z, c))
                     /\ ~Exists(fs, GetLockPath(ZoneRoot(z), raw))
                  THEN Opened(z, c, raw)
                  ELSE Kept(c))

LockedWrite(z, c, raw, content, append) ==
    /\ Running
    /\ \E r \in {EditWriteResult(fs, z, c, raw, content, append, symlinks)} :
          Handled("edit_write", c, z, raw, r.fs, repo, r.resp, Follows(z, c))

LockedExec(z, c, cmd, args) ==
    /\ Running
    /\ \E r \in EditExecResults(fs, z, c, cmd, args, 30, symlinks) :
          Handled("edit_exec", c, z, <<>>, r.fs, repo, r.resp, Follows(z, c))

\* edit_save and edit_cancel end the edit that the history follows when they
\* are its conversation's, on its path
Closes(z, c, raw, ok) ==
    IF sess.st = "open" /\ sess.conv = c /\ sess.zone = z /\ sess.path = raw /\ ok
    THEN [sess EXCEPT !.st = "closed", !.pure = OnlyCopy(fs, z, c, raw)]
    ELSE KeptOpen(c)

LockedSave(z, c, raw) ==
    /\ Running
    /\ \E r \in {EditSaveResult(fs, repo, z, c, raw)} :
          Handled("edit_save", c, z, raw, r.fs, r.repo, r.resp, Closes(z, c, raw, r.resp.ok))

LockedCancel(z, c, raw) ==
    /\ Running
    /\ \E r \in {EditCancelResult(fs, z, c, raw)} :
          Handled("edit_cancel", c, z, raw, r.fs, repo, r.resp, Closes(z, c, raw, r.resp.ok))

ForceUnlock(raw, zone) ==
    /\ Running
    /\ \E r \in {ForceUnlockResult(fs, raw, zone)} :
          Handled("force_unlock", <<>>, zone, raw, r.fs, repo, r.resp, NoSess)

LockedMaintenance(order, raises) ==
    /\ Running
    /\ \E r \in {MaintenanceResult(fs, now, ConvDirs(STORAGE, order),
                                ConvDirs(DOCUMENTS, order), raises)} :
          Handled("maintenance", <<>>, <<>>, <<>>, r.fs, repo, r.resp, NoSess)

LockNext ==
    \/ Tick(LockMaxAgeHours + 1)
    \/ \E z \in Zones, c \in Convs, raw \in LockPaths : LockedOpen(z, c, raw)
    \/ \E c \in Convs, raw \in StrayPaths : LockedWrite(STORAGE, c, raw, <<"y">>, FALSE)
    \/ \E c \in Convs, e \in EditCommands : LockedExec(STORAGE, c, e[1], e[2])
    \/ \E z \in Zones, c \in Convs, raw \in LockPaths : LockedSave(z, c, raw)
    \/ \E z \in Zones, c \in Convs, raw \in LockPaths : LockedCancel(z, c, raw)
    \/ \E raw \in LockPaths, zone \in ZoneNames : ForceUnlock(raw, zone)
    \/ \E order \in Orderings(Convs), raises \in BOOLEAN : LockedMaintenance(order, raises)

SpecLocks == LockInit /\ [][LockNext]_vars

-----------------------------------------------------------------------------
(* Direct operations on a path that a conversation has open                *)

\* conversation A has Storage/data/f open, or the directory Storage/data/d
HeldTrees ==
    {OpenedBefore(STORAGE, Str("A")), EditOpenResult(InitFs, STORAGE, Str("A"), <<"d">>, 0).fs}

\* the arguments of the calls: what is written directly and into the edit
\* zone, and the pairs of store_storage_rename
DirectContent == <<"y">>
EditContent == <<"z">>
RenamePairs ==
    {<<<<"f">>, <<"g">>>>, <<<<"d", "/", "f">>, <<"f">>>>, <<<<"f">>, <<"d">>>>}

HeldInit ==
    /\ fs \in HeldTrees
    /\ symlinks = NoLinks
    /\ now = 0
    /\ repo = InitRepo(fs)
    /\ resp = NoResp
    /\ sess = NoSess
    /\ opc = [c \in Convs |-> IdleOp]
    /\ nops = 0
    /\ live = TRUE
    /\ call = NoCall

\* the direct calls keep no conversation apart: c is the one that asks
DirectWriteHeld(c, raw, content, append) ==
    /\ Running
    /\ \E r \in {StorageWriteResult(fs, raw, content, append, symlinks)} :
          Handled("write", c, STORAGE, raw, r.fs, repo, r.resp,
                  [NoSess EXCEPT !.last = LastWrite(fs, Append(ZoneRoot(STORAGE), DATA),
                                                    raw, content, append, symlinks)])

DirectDeleteHeld(c, raw) ==
    /\ Running
    /\ \E r \in {StorageDeleteResult(fs, raw, symlinks)} :
          Handled("delete", c, STORAGE, raw, r.fs, repo, r.resp, NoSess)

\* sess.last.path keeps the new path of the rename
DirectRenameHeld(c, old_path, new_path) ==
    /\ Running
    /\ \E r \in {StorageRenameResult(fs, old_path, new_path, symlinks)} :
          Handled("rename", c, STORAGE, old_path, r.fs, repo, r.resp,
                  [NoSess EXCEPT !.last = [NoWrite EXCEPT !.path = new_path]])

HeldNext ==
    \/ \E raw \in StrayPaths, append \in BOOLEAN :
          DirectWriteHeld(Str("B"), raw, DirectContent, append)
    \/ \E raw \in LockPaths : DirectDeleteHeld(Str("B"), raw)
    \/ \E p \in RenamePairs : DirectRenameHeld(Str("B"), p[1], p[2])
    \/ \E c \in Convs, raw \in StrayPaths : LockedWrite(STORAGE, c, raw, EditContent, FALSE)
    \/ \E c \in Convs, raw \in LockPaths : LockedSave(STORAGE, c, raw)

SpecHeld == HeldInit /\ [][HeldNext]_vars

-----------------------------------------------------------------------------
(* Documents writes on a host with or without a working git                *)

\* nothing is stored yet; the host stays what it is, call keeps it
HostInit ==
    /\ fs = DirectFs
    /\ symlinks = NoLinks
    /\ now = 0
    /\ repo = NoRepo
    /\ resp = NoResp
    /\ sess = NoSess
    /\ opc = [c \in Convs |-> IdleOp]
    /\ nops = 0
    /\ live = TRUE
    /\ call \in {[fn |-> "none", git |-> g] : g \in GitHosts}

\* one store_documents_write from call to return; call keeps the tree before
\* the call and what the write alone does to a Documents/data that is there
DocumentsWriteHost(raw, content, append, message) ==
    /\ Running
    /\ \E r \in {DocumentsWriteOn(fs, repo, raw, content, append, message, symlinks, call.git)} :
          /\ ContentsBounded(r.fs)
          /\ nops' = nops + 1
          /\ fs' = r.fs
          /\ repo' = r.repo
          /\ resp' = r.resp
          /\ live' = (r.fs # fs \/ r.repo # repo)
    /\ call' = [fn |-> "store_documents_write", git |-> call.git, raw |-> raw, pre |-> fs,
                primary |-> WriteInto(EnsureDir(fs, Append(ZoneRoot(DOCUMENTS), DATA)),
                                      Append(ZoneRoot(DOCUMENTS), DATA),
                                      raw, content, append, symlinks)]
    /\ UNCHANGED <<symlinks, now, opc, sess>>

HostNext ==
    \E raw \in DirectPaths, w \in DirectWrites, message \in Messages :
        DocumentsWriteHost(raw, w[1], w[2], message)

SpecHost == HostInit /\ [][HostNext]_vars


-----------------------------------------------------------------------------
(* The helpers called on their own                                         *)

\* everything but the call record and the links, as after construction
Idle ==
    /\ fs = InitFs
    /\ now = 0
    /\ repo = InitRepo(InitFs)
    /\ resp = NoResp
    /\ sess = NoSess
    /\ opc = [c \in Convs |-> IdleOp]
    /\ nops = 0
    /\ live = TRUE
    /\ call = NoCall

RECURSIVE Strings(_, _)
\* the strings of at most n tokens over an alphabet
Strings(alphabet, n) ==
    IF n = 0 THEN {<<>>}
    ELSE LET shorter == Strings(alphabet, n - 1)
         IN shorter \cup {Append(w, t) : w \in shorter, t \in alphabet}

MaxPathLen == 4
PathAlphabet == {"/", ".", "data", "a", "f"}

\* the chroot of the direct operations on the Storage zone
Chroot == Append(ZoneRoot(STORAGE), DATA)

\* the links that may lie in the chroot (ln is a read-write command): none,
\* data/a -> the user root, data/a -> data/f
LinkEnvs ==
    {NoLinks,
     [q \in {Append(Chroot, Str("a"))} |-> UserRoot],
     [q \in {Append(Chroot, Str("a"))} |-> Append(Chroot, Str("f"))]}

ResolveInit == Idle /\ symlinks \in LinkEnvs

ResolveCall(raw) ==
    /\ call = NoCall
    /\ \E r \in {ResolveChrootPath(Chroot, raw, symlinks)} :
          call' = [fn |-> "_resolve_chroot_path", raw |-> raw,
                   ok |-> r.ok, error |-> r.error, target |-> r.target]
    /\ UNCHANGED <<fs, symlinks, now, repo, resp, sess, opc, nops, live>>

ResolveNext == \E raw \in Strings(PathAlphabet, MaxPathLen) : ResolveCall(raw)

SpecResolve == ResolveInit /\ [][ResolveNext]_vars

MaxArgLen == 2
ArgAlphabet ==
    {"a", "-", "i", " ", "\n", ";", "&", "|", "backtick", "$", "(", "{", ">", "<"}
\* the argument lists: one argument, or the argument after a harmless one
\* the spellings of the in-place option of sed: -i, -i with a suffix, i in a
\* group of short options, and the long form
InPlaceSpellings ==
    {InPlaceFlag, <<"-", "i", "a">>, <<"-", "a", "i">>, <<"-", "-", "in-place">>}
ArgLists ==
    {<<w>> : w \in Strings(ArgAlphabet, MaxArgLen)}
    \cup {<<Str("a"), w>> : w \in Strings(ArgAlphabet, MaxArgLen)}
    \cup {<<w>> : w \in InPlaceSpellings}
\* the args handed to _validate_command
CommandArgs ==
    {NoArgs, <<>>, <<Str("status")>>, <<Str("push")>>, <<Str("bisect")>>, <<Str("a")>>,
     <<Str("--no-pager"), Str("status")>>, <<Str("commit"), Str("push")>>}
Commands == BLACKLIST_COMMANDS \cup WHITELIST_READWRITE \cup {"frobnicate"}

ValidateInit == Idle /\ symlinks = NoLinks

ValidateCommandCall(cmd, whitelist, args) ==
    /\ call = NoCall
    /\ \E r \in {ValidateCommand(cmd, whitelist, args)} :
          call' = [fn |-> "_validate_command", cmd |-> cmd, whitelist |-> whitelist,
                   args |-> args,
                   ok |-> r.ok, error |-> r.error, why |-> r.why]
    /\ UNCHANGED <<fs, symlinks, now, repo, resp, sess, opc, nops, live>>

ValidateArgsCall(args, readonly) ==
    /\ call = NoCall
    /\ \E r \in {ValidateArgs(args, readonly)} :
          call' = [fn |-> "_validate_args", args |-> args, readonly |-> readonly,
                   ok |-> r.ok, error |-> r.error, why |-> r.why]
    /\ UNCHANGED <<fs, symlinks, now, repo, resp, sess, opc, nops, live>>

ValidateNext ==
    \/ \E cmd \in Commands, whitelist \in {WHITELIST_READONLY, WHITELIST_READWRITE},
          args \in CommandArgs : ValidateCommandCall(cmd, whitelist, args)
    \/ \E args \in ArgLists, readonly \in BOOLEAN : ValidateArgsCall(args, readonly)

SpecValidate == ValidateInit /\ [][ValidateNext]_vars

MaxTimeout == 8
MaxValve == 6
\* the timeouts a caller supplies: around zero, around the default
\* maximum, and very large
Timeouts ==
    ((0 - MaxTimeout)..MaxTimeout)
    \cup {ExecTimeoutMax - 1, ExecTimeoutMax, ExecTimeoutMax + 1, 1000000000}
\* the values the valve exec_timeout_max is set to; the field has no lower limit
TimeoutValves == ((0 - 2)..MaxValve) \cup {ExecTimeoutMax}

ClampInit == Idle /\ symlinks = NoLinks

ClampCall(timeout, exec_timeout_max) ==
    /\ call = NoCall
    /\ call' = [fn |-> "_clamp_timeout", timeout |-> timeout,
                exec_timeout_max |-> exec_timeout_max,
                passed |-> ClampTimeout(timeout, exec_timeout_max)]
    /\ UNCHANGED <<fs, symlinks, now, repo, resp, sess, opc, nops, live>>

ClampNext == \E timeout \in Timeouts, m \in TimeoutValves : ClampCall(timeout, m)

SpecClamp == ClampInit /\ [][ClampNext]_vars

-----------------------------------------------------------------------------
(* edit_open of two conversations, step by step                            *)
(*                                                                         *)
(* Several workers serve the same user root, so the file-system calls of   *)
(* two edit_open calls interleave: the checks (path, data/<path>,          *)
(* _check_lock), then _create_lock, then the copy into the edit zone.      *)

RaceInit ==
    /\ Idle
    /\ symlinks = NoLinks

\* the call starts: validation, the existence test, _check_lock
OpenBegin(c, z, raw) ==
    /\ opc[c].pc = "idle"
    /\ \E chk \in {OpenCheck(fs, z, c, raw)} :
          opc' = [opc EXCEPT ![c] =
                    [pc |-> IF chk.ok THEN "checked" ELSE "done",
                     zone |-> z, path |-> chk.path, ok |-> FALSE, error |-> chk.error]]
    /\ UNCHANGED <<fs, symlinks, now, repo, resp, sess, nops, live, call>>

\* _create_lock
OpenCreateLock(c) ==
    /\ opc[c].pc = "checked"
    /\ \E lk \in {OpenLock(fs, opc[c].zone, c, opc[c].path, now)} :
          /\ fs' = lk.fs
          /\ opc' = [opc EXCEPT ![c].pc = IF lk.ok THEN "locked" ELSE "done",
                                ![c].error = IF lk.ok THEN "" ELSE Exc]
    /\ UNCHANGED <<symlinks, now, repo, resp, sess, nops, live, call>>

\* the copy and the return
OpenFinish(c) ==
    /\ opc[c].pc = "locked"
    /\ \E cp \in {OpenCopy(fs, opc[c].zone, c, opc[c].path)} :
          /\ fs' = cp.fs
          /\ opc' = [opc EXCEPT ![c].pc = "done", ![c].ok = cp.ok,
                                ![c].error = IF cp.ok THEN "" ELSE Exc]
    /\ UNCHANGED <<symlinks, now, repo, resp, sess, nops, live, call>>

RaceNext ==
    \/ \E c \in Convs, z \in Zones, raw \in OpenPaths : OpenBegin(c, z, raw)
    \/ \E c \in Convs : OpenCreateLock(c)
    \/ \E c \in Convs : OpenFinish(c)

SpecRace == RaceInit /\ [][RaceNext]_vars

-----------------------------------------------------------------------------
(* Statements about the resolver, the validator and concurrent opens       *)

\* the '..' segments of p ascend above the root: reading the segments from
\* the left, one is met while no segment is left to go back over
AscendsAboveRoot(p) == ~StackWalk(Split(LStrip(p)), <<>>).ok

\* C1: _resolve_chroot_path returns a path that is the root or lies below it,
\* or fails with PATH_ESCAPE, and it fails with PATH_ESCAPE for every path
\* whose '..' segments ascend above the root.
C1_PathConfined ==
    call.fn = "_resolve_chroot_path" =>
        /\ call.ok => IsPrefix(Resolve(Chroot, symlinks), call.target)
        /\ ~call.ok => call.error = "PATH_ESCAPE"
        /\ AscendsAboveRoot(call.raw) => ~call.ok /\ call.error = "PATH_ESCAPE"

\* C2: two edit_open calls of different conversations on the same path of the
\* same zone never both return success with both edit-zone copies on disk.
C2_OneEditor ==
    \A c1, c2 \in Convs :
        (/\ c1 # c2
         /\ opc[c1].pc = "done" /\ opc[c1].ok
         /\ opc[c2].pc = "done" /\ opc[c2].ok
         /\ opc[c1].zone = opc[c2].zone /\ opc[c1].path = opc[c2].path)
        => ~(/\ Exists(fs, GetEditzonePath(ZoneRoot(opc[c1].zone), c1, opc[c1].path))
             /\ Exists(fs, GetEditzonePath(ZoneRoot(opc[c2].zone), c2, opc[c2].path)))

\* C9: a command of BLACKLIST_COMMANDS is refused with COMMAND_FORBIDDEN by
\* the blacklist test ("is forbidden", not "is not in whitelist"), whichever
\* whitelist and arguments come with it.
C9_BlacklistFirst ==
    (call.fn = "_validate_command" /\ call.cmd \in BLACKLIST_COMMANDS) =>
        /\ ~call.ok
        /\ call.error = "COMMAND_FORBIDDEN"
        /\ call.why = "Command is forbidden"

\* a blacklisted command was validated with arguments that would pass the
\* git test
C9_Witness ==
    /\ call.fn = "_validate_command"
    /\ call.cmd = "bash"
    /\ call.args = <<Str("status")>>
    /\ ~call.ok

\* the sequences the injection scan is to refuse
ForbiddenSequences ==
    {<<";">>, <<"&">>, <<"|">>, <<"backtick">>, <<"$", "(">>, <<"$", "{">>,
     <<">", ">">>, <<"<", "<">>, <<">">>, <<"<">>}

\* C10: an argument list with an argument that contains one of the sequences
\* ; & | backtick $( ${ >> << > < is refused with ARGUMENT_FORBIDDEN.
C10_InjectionRefused ==
    (/\ call.fn = "_validate_args"
     /\ \E i \in 1..Len(call.args) :
           \E q \in ForbiddenSequences : Contains(call.args[i], q))
    => ~call.ok /\ call.error = "ARGUMENT_FORBIDDEN"

\* C11: in a read-write zone an argument list whose arguments are all free of
\* the sequences ; & | backtick $( ${ >> << > < passes argument validation.
C11_CleanArgsPass ==
    (/\ call.fn = "_validate_args"
     /\ ~call.readonly
     /\ \A i \in 1..Len(call.args) :
           \A q \in ForbiddenSequences : ~Contains(call.args[i], q))
    => call.ok

\* C19 as stated: whatever the caller's timeout and whatever the valve
\* exec_timeout_max, the timeout handed to the executor lies in
\* [1, exec_timeout_max].
C19_TimeoutInRange ==
    call.fn = "_clamp_timeout" =>
        1 <= call.passed /\ call.passed <= call.exec_timeout_max

\* C19, amended: the same for a valve exec_timeout_max of at least 1; for a
\* smaller valve the timeout handed to the executor is 1.
C19_TimeoutInRangeOfValidValve ==
    call.fn = "_clamp_timeout" =>
        IF call.exec_timeout_max >= 1
        THEN 1 <= call.passed /\ call.passed <= call.exec_timeout_max
        ELSE call.passed = 1

\* a timeout below 1 was raised to 1 under a valve above 1
C19_Witness ==
    /\ call.fn = "_clamp_timeout"
    /\ call.timeout < 1 /\ call.exec_timeout_max > 1
    /\ call.passed = 1

-----------------------------------------------------------------------------
(* Statements about the edit workflow and store_maintenance                *)

\* C3: a successful edit_open of a path that was not locked, followed only by
\* writes of the same conversation into its edit zone and then by its
\* edit_cancel, leaves data/ as it was before the open and leaves neither a
\* lock record nor an edit-zone copy for the path.
C3_CancelRestores ==
    sess.st = "cancelled" =>
        /\ Subtree(fs, Append(ZoneRoot(sess.zone), DATA)) = sess.pre
        /\ ~Exists(fs, GetLockPath(ZoneRoot(sess.zone), sess.path))
        /\ ~Exists(fs, GetEditzonePath(ZoneRoot(sess.zone), sess.conv, sess.path))

\* an open, a write into the edit zone and the cancel have happened
C3_Witness ==
    /\ sess.st = "cancelled" /\ sess.wrote
    /\ resp = Response("edit_cancel", TRUE, "", <<>>)

\* C4: a successful edit_save leaves at data/<path> exactly the edit-zone copy
\* it found (what was there before is removed, not merged with), and leaves
\* neither the lock record nor the edit-zone copy of the path.
C4_SaveReplaces ==
    sess.st = "saved" =>
        /\ Subtree(fs, DataPath(ZoneRoot(sess.zone), sess.path)) = sess.final
        /\ ~Exists(fs, GetLockPath(ZoneRoot(sess.zone), sess.path))
        /\ ~Exists(fs, GetEditzonePath(ZoneRoot(sess.zone), sess.conv, sess.path))

\* an open, a write into the edit zone and the save have happened
C4_Witness ==
    /\ sess.st = "saved" /\ sess.pure /\ sess.wrote
    /\ resp = Response("edit_save", TRUE, "", <<>>)

\* the lock record of path p in zone z names a conversation other than c
LockedByOther(f, z, c, p) ==
    LET lock_path == GetLockPath(ZoneRoot(z), p)
    IN Exists(f, lock_path) /\ IsJson(f[lock_path].c) /\ f[lock_path].c.conv_id # c

\* edit_open of p by c is refused with FILE_LOCKED naming the owner, and
\* changes nothing on disk
OpenRefused(f, z, c, p, t) ==
    LET r == EditOpenResult(f, z, c, p, t)
    IN /\ r.resp = Response("edit_open", FALSE, "FILE_LOCKED",
                            f[GetLockPath(ZoneRoot(z), p)].c.conv_id)
       /\ r.fs = f

\* C5 as stated: whenever a well-formed lock record of a path names another
\* conversation, edit_open of the path is refused with FILE_LOCKED naming the
\* owner, creates no edit-zone copy and leaves the lock record as it is.
C5_LockedOpenRefused ==
    \A z \in Zones, c \in Convs, p \in ClosePaths :
        LockedByOther(fs, z, c, p) => OpenRefused(fs, z, c, p, now)

\* C5, amended: the same while data/<path> exists.
C5_LockedOpenRefusedIfPresent ==
    \A z \in Zones, c \in Convs, p \in ClosePaths :
        LockedByOther(fs, z, c, p) /\ Exists(fs, DataPath(ZoneRoot(z), p))
            => OpenRefused(fs, z, c, p, now)

\* an edit_open has just been refused because of another conversation's lock
C5_Witness ==
    /\ resp.op = "edit_open" /\ resp.error = "FILE_LOCKED"
    /\ \E z \in Zones, c \in Convs, p \in ClosePaths :
          /\ LockedByOther(fs, z, c, p)
          /\ resp.owner = fs[GetLockPath(ZoneRoot(z), p)].c.conv_id
          /\ ~Exists(fs, GetEditzonePath(ZoneRoot(z), c, p))

\* the lock records below locks/ of zone z, by their path relative to locks/
LockRels(f, z) ==
    {Rel(q, Append(ZoneRoot(z), LOCKS)) :
        q \in {q \in Descendants(f, Append(ZoneRoot(z), LOCKS)) :
                  IsFile(f, q) /\ IsLockName(q)}}

\* C6: after store_maintenance every file of the edit-zone copy of a path
\* whose lock record is well-formed and not older than lock_max_age_hours
\* still exists, the files of the whole subtree when the path is a directory.
C6_FreshEditKept ==
    sess.st = "swept" =>
        \A z \in Zones, c \in Convs, p \in ClosePaths :
            LET lock_path == GetLockPath(ZoneRoot(z), p)
                edit_path == GetEditzonePath(ZoneRoot(z), c, p)
            IN (/\ Exists(sess.pre, lock_path)
                /\ IsJson(sess.pre[lock_path].c)
                /\ sess.pre[lock_path].c.conv_id = c
                /\ ~Expired(sess.pre[lock_path].c, sess.at))
               => \A q \in Descendants(sess.pre, edit_path) :
                      IsFile(sess.pre, q) => IsFile(fs, q)

\* C7: after store_maintenance no lock record older than lock_max_age_hours
\* is left in either zone, and the edit-zone copy that such a record named
\* is gone with it.
C7_NoExpiredLockLeft ==
    sess.st = "swept" =>
        \A z \in Zones, c \in Convs, p \in ClosePaths :
            LET lock_path == GetLockPath(ZoneRoot(z), p)
            IN (/\ Exists(sess.pre, lock_path)
                /\ IsJson(sess.pre[lock_path].c)
                /\ sess.pre[lock_path].c.conv_id = c
                /\ Expired(sess.pre[lock_path].c, sess.at))
               => /\ ~Exists(fs, lock_path)
                  /\ ~Exists(fs, GetEditzonePath(ZoneRoot(z), c, p))

\* an entry of a conversation's edit zone is covered when a lock record exists
\* for its path, for a directory above it or for a path below it
Covered(f, z, rel) ==
    \E l \in LockRels(f, z) :
        LET locked == Parts(StripLock(l))
        IN IsPrefix(locked, rel) \/ IsPrefix(rel, locked)

\* C8: after store_maintenance every entry below editzone/<conv>, file or
\* directory, empty directories included, is covered by a lock record.
C8_NoOrphanLeft ==
    sess.st = "swept" =>
        \A z \in Zones, c \in Convs :
            LET conv_dir == Append(Append(ZoneRoot(z), EDITZONE), c)
            IN \A q \in Descendants(fs, conv_dir) \ {conv_dir} :
                  Covered(fs, z, Rel(q, conv_dir))

\* the error codes of the taxonomy; EXEC_ERROR is the catch-all
ErrorCodes ==
    {"PATH_ESCAPE", "COMMAND_FORBIDDEN", "ARGUMENT_FORBIDDEN", "FILE_NOT_FOUND",
     "FILE_LOCKED", "ZONE_FORBIDDEN", "TIMEOUT", "COMMAND_NOT_FOUND",
     "QUOTA_EXCEEDED", "EXEC_ERROR"}

\* C18: every operation that fails returns the envelope with success = false
\* and an error code of the taxonomy; no failure comes without a code.
C18_FailureHasCode ==
    (resp.op # "none" /\ ~resp.ok) => resp.error \in ErrorCodes

-----------------------------------------------------------------------------
(* Statements about the direct operations and the repository               *)

\* the last call was a write of a content over the size limit
OversizedWrite == sess.last # NoWrite /\ ByteLen(sess.last.content) > MaxBytes

\* what the last write was aimed at is as it was before the call: the same
\* file, or still absent
TargetUntouched ==
    sess.last.target # <<>> => Subtree(fs, sess.last.target) = sess.last.pre

\* C12 as stated: a write to Storage, to Documents or into an edit zone whose
\* content exceeds the maximum size fails with QUOTA_EXCEEDED and leaves the
\* target as it was, with and without append.
C12_OversizedWriteRefused ==
    OversizedWrite =>
        /\ ~resp.ok /\ resp.error = "QUOTA_EXCEEDED"
        /\ TargetUntouched

\* C12, amended: the same, except that a write into the edit zone of a
\* conversation that has nothing open fails with ZONE_FORBIDDEN.
C12_OversizedWriteRefusedInZone ==
    OversizedWrite =>
        /\ ~resp.ok
        /\ resp.error = IF Exists(fs, sess.last.chroot)
                        THEN "QUOTA_EXCEEDED" ELSE "ZONE_FORBIDDEN"
        /\ TargetUntouched

\* an oversized append to a file that exists has been refused
C12_Witness ==
    /\ OversizedWrite /\ sess.last.append
    /\ IsFile(fs, sess.last.target)
    /\ resp.error = "QUOTA_EXCEEDED"

\* the operations that change the Documents zone
DocumentMutations ==
    {"documents_write", "documents_delete", "documents_rename",
     "storage_to_documents", "uploads_to_documents", "documents_to_storage"}

\* C16: every operation that changes the Documents zone and returns success
\* (write, delete, rename, edit_save, a bridge into or out of Documents) adds
\* exactly one commit to the repository, also when it leaves the working
\* tree as the last commit has it.
C16_OneCommitEach ==
    [][(/\ nops' = nops + 1
        /\ resp'.ok
        /\ \/ resp'.op \in DocumentMutations
           \/ resp'.op = "edit_save" /\ sess'.zone = DOCUMENTS)
       => Len(repo'.log) = Len(repo.log) + 1]_vars

\* C17: a store_documents_write that made a new file and the
\* store_documents_rename of that file right after it, both successful, leave
\* two more commits: the first holds the file at the old path, the second
\* does not and differs from the first.
C17_WriteThenRename ==
    sess.st = "renamed" =>
        LET n == Len(sess.log)
            old == Rel(sess.last.target, sess.last.chroot)
        IN /\ Len(repo.log) = n + 2
           /\ SubSeq(repo.log, 1, n) = sess.log
           /\ old \in DOMAIN repo.log[n + 1].tree
           /\ old \notin DOMAIN repo.log[n + 2].tree
           /\ repo.log[n + 1].tree # repo.log[n + 2].tree

\* C20: a successful store_storage_write leaves the file at the path, in a
\* directory made where it was missing, holding exactly the content (after
\* what was there, for an append to an existing file), and reports the size
\* of the content in bytes.
C20_WriteReportsBytes ==
    (resp.op = "write" /\ resp.ok) =>
        LET target == sess.last.target
            before == IF sess.last.append /\ <<>> \in DOMAIN sess.last.pre
                      THEN sess.last.pre[<<>>].c.s ELSE <<>>
        IN /\ IsDir(fs, Parent(target))
           /\ IsFile(fs, target)
           /\ fs[target].c = Text(before \o sess.last.content)
           /\ resp.bytes = ByteLen(sess.last.content)

-----------------------------------------------------------------------------
(* Statements about the exec entry points                                  *)

ExecEntryPoints ==
    {"store_uploads_exec", "store_storage_exec", "store_documents_exec",
     "store_storage_edit_exec", "store_documents_edit_exec"}
ExecCalled == call.fn \in ExecEntryPoints

\* the directory the call was to run in
ExecChroot ==
    IF call.fn = "store_uploads_exec" THEN Append(ZoneRoot(UPLOADS), call.conv)
    ELSE IF call.fn = "store_storage_exec" THEN Append(ZoneRoot(STORAGE), DATA)
    ELSE IF call.fn = "store_documents_exec" THEN Append(ZoneRoot(DOCUMENTS), DATA)
    ELSE IF call.fn = "store_storage_edit_exec"
         THEN Append(Append(ZoneRoot(STORAGE), EDITZONE), call.conv)
    ELSE Append(Append(ZoneRoot(DOCUMENTS), EDITZONE), call.conv)

\* the handler finds the directory or makes it
ChrootReady ==
    \/ Exists(call.pre, ExecChroot)
    \/ call.fn \in {"store_storage_exec", "store_documents_exec"}

AbsoluteArg ==
    ExecCalled /\ \E i \in 1..Len(call.args) : call.args[i] # <<>> /\ Head(call.args[i]) = "/"
RmRfSlash == ExecCalled /\ call.cmd = "rm" /\ call.args = <<Str("-rf"), Str("/")>>

C14_RejectedExecNoEffect ==
    /\ call.fn \in {"store_uploads_exec", "store_storage_exec", "store_documents_exec"}
    /\ ~resp.ok
    /\ resp.error \in {"COMMAND_FORBIDDEN", "ARGUMENT_FORBIDDEN", "PATH_ESCAPE"}
    => fs = call.pre

\* C15: exec of the blacklisted command bash fails with COMMAND_FORBIDDEN
\* through every exec entry point, in every state.
C15_BlacklistedEverywhere ==
    ExecCalled /\ call.cmd = "bash" => ~resp.ok /\ resp.error = "COMMAND_FORBIDDEN"

-----------------------------------------------------------------------------
(* Statements about two conversations and their lock records              *)

\* the last step was a call of one of the handlers ops
Called(ops) == resp.op \in ops /\ call.fn = resp.op

\* the well-formed lock records of the zone of the call that name a
\* conversation other than the caller
ForeignLocks ==
    {q \in Descendants(call.pre, Append(ZoneRoot(call.zone), LOCKS)) :
        /\ IsFile(call.pre, q)
        /\ IsJson(call.pre[q].c)
        /\ call.pre[q].c.conv_id # call.conv}

\* C21: an edit_cancel or edit_save of one conversation leaves every lock
\* record that names another conversation where and as it was.
C21_ForeignLockKept ==
    Called({"edit_cancel", "edit_save"}) =>
        \A q \in ForeignLocks : Exists(fs, q) /\ fs[q] = call.pre[q]

\* the lock record of the path of the call named the caller before the call
OwnLock ==
    LET lock_path == GetLockPath(ZoneRoot(call.zone), call.path)
    IN /\ IsFile(call.pre, lock_path)
       /\ IsJson(call.pre[lock_path].c)
       /\ call.pre[lock_path].c.conv_id = call.conv

\* C22: edit_save by a conversation that the lock record of the path does
\* not name changes neither data/ nor the lock records of the zone.
C22_SaveNeedsOwnLock ==
    Called({"edit_save"}) /\ ~OwnLock =>
        /\ Subtree(fs, Append(ZoneRoot(call.zone), DATA))
              = Subtree(call.pre, Append(ZoneRoot(call.zone), DATA))
        /\ Subtree(fs, Append(ZoneRoot(call.zone), LOCKS))
              = Subtree(call.pre, Append(ZoneRoot(call.zone), LOCKS))

\* C28: edit_save of a path of which the caller has no edit-zone copy fails
\* with FILE_NOT_FOUND and leaves the whole tree, data/<path> and the lock
\* record of the path included, as it was, and makes no commit.
C28_SaveWithoutCopy ==
    (/\ Called({"edit_save"})
     /\ ~Exists(call.pre, GetEditzonePath(ZoneRoot(call.zone), call.conv, call.path)))
    => /\ resp = Response("edit_save", FALSE, "FILE_NOT_FOUND", <<>>)
       /\ fs = call.pre
       /\ Len(repo.log) = call.commits

\* an edit_save without a copy was refused while data/<path> and another
\* conversation's lock record on the path were there
C28_Witness ==
    /\ Called({"edit_save"})
    /\ resp.error = "FILE_NOT_FOUND"
    /\ ~Exists(call.pre, GetEditzonePath(ZoneRoot(call.zone), call.conv, call.path))
    /\ Exists(fs, DataPath(ZoneRoot(call.zone), call.path))
    /\ GetLockPath(ZoneRoot(call.zone), call.path) \in ForeignLocks

\* an edit-zone write or exec was refused because nothing is open
ZoneRefused == ~resp.ok /\ resp.error = "ZONE_FORBIDDEN"

\* every edit-zone write or exec of a conversation without a directory
\* editzone/<conv_id> is refused with ZONE_FORBIDDEN
NoEditRootRefused ==
    (Called({"edit_write", "edit_exec"}) /\ ~Exists(call.pre, EditRoot(call.zone, call.conv)))
        => ZoneRefused /\ fs = call.pre

\* C23 as stated: an edit-zone write or exec without editzone/<conv_id> fails
\* with ZONE_FORBIDDEN, and so does the first write or exec of a conversation
\* after the edit_save or edit_cancel of its only open path.
C23_RefusedAfterClose ==
    /\ NoEditRootRefused
    /\ (Called({"edit_write", "edit_exec"}) /\ sess.st = "next") => ZoneRefused

\* C23, amended: the same, the second part for a conversation whose edit zone
\* held nothing but the copy of that path when it was saved or cancelled.
C23_RefusedAfterCleanClose ==
    /\ NoEditRootRefused
    /\ (Called({"edit_write", "edit_exec"}) /\ sess.st = "next" /\ sess.pure) => ZoneRefused

\* the first write or exec after the end of a conversation's only edit was
\* refused
C23_Witness ==
    /\ Called({"edit_write", "edit_exec"})
    /\ sess.st = "next" /\ sess.pure
    /\ ZoneRefused
    /\ ~Exists(fs, EditRoot(call.zone, call.conv))

\* the content of data/ of both zones
DataOf(f) == [z \in Zones |-> Subtree(f, Append(ZoneRoot(z), DATA))]

\* C24: edit_open, edit-zone write and edit_cancel leave data/ of both zones
\* as it was, and among the operations on locks and edit zones only edit_save
\* changes data/.
C24_EditZoneIsolation ==
    /\ Called({"edit_open", "edit_write", "edit_cancel"}) => DataOf(fs) = DataOf(call.pre)
    /\ (call.fn = resp.op /\ resp.op # "none" /\ DataOf(fs) # DataOf(call.pre))
           => resp.op = "edit_save"

\* an edit-zone write changed the edit-zone copy of a path that is in data/
C24_Witness ==
    /\ Called({"edit_write"}) /\ resp.ok
    /\ fs # call.pre
    /\ Exists(fs, DataPath(ZoneRoot(call.zone), call.path))
    /\ Exists(call.pre, GetEditzonePath(ZoneRoot(call.zone), call.conv, call.path))

\* a lock record that is no record with a conv_id: text that does not parse,
\* JSON that is no object, an object without conv_id
NoOwnerRecord(c) == c.tag = "text" \/ ~IsObject(c) \/ c.conv_id = <<>>

\* edit_open was called on a path of data/ whose lock file held such a
\* record, by a conversation with no edit zone yet
OpenedOverMalformed ==
    /\ Called({"edit_open"})
    /\ Exists(call.pre, DataPath(ZoneRoot(call.zone), call.path))
    /\ ~Exists(call.pre, EditRoot(call.zone, call.conv))
    /\ IsFile(call.pre, GetLockPath(ZoneRoot(call.zone), call.path))
    /\ NoOwnerRecord(call.pre[GetLockPath(ZoneRoot(call.zone), call.path)].c)

\* C25: edit_open on a path whose lock record is malformed succeeds and
\* leaves a fresh lock record that names the caller.
C25_MalformedLockAbsent ==
    OpenedOverMalformed =>
        /\ resp.ok
        /\ IsFile(fs, GetLockPath(ZoneRoot(call.zone), call.path))
        /\ fs[GetLockPath(ZoneRoot(call.zone), call.path)].c
              = LockRec(call.conv, call.at, call.path)

\* for text that does not parse the code does as C25 says
C25_GarbledReplaced ==
    /\ OpenedOverMalformed
    /\ call.pre[GetLockPath(ZoneRoot(call.zone), call.path)].c = Garbled
    /\ resp.ok
    /\ fs[GetLockPath(ZoneRoot(call.zone), call.path)].c = LockRec(call.conv, call.at, call.path)

\* the lock files of both zones
LockFiles(f) ==
    {p \in DOMAIN f : IsFile(f, p) /\ \E z \in Zones : IsPrefix(Append(ZoneRoot(z), LOCKS), p)}

\* a lock record that does not parse as a valid record: text that is no JSON,
\* JSON that is no object, no locked_at, a locked_at that is no date or
\* carries no time zone
Corrupted(c) == c.tag \in {"text", "json", "nodate", "baddate", "naive"}

\* C26: maintenance returns success and leaves no corrupted lock record and
\* no expired lock record in either zone.
C26_CorruptedSwept ==
    Called({"maintenance"}) =>
        /\ resp.ok
        /\ \A p \in LockFiles(fs) :
              ~Corrupted(fs[p].c) /\ ~(IsJson(fs[p].c) /\ Expired(fs[p].c, call.at))

\* for text that does not parse the code does as C26 says
C26_GarbledSwept ==
    /\ Called({"maintenance"}) /\ resp.ok
    /\ \E p \in LockFiles(call.pre) : call.pre[p].c = Garbled
    /\ \A p \in LockFiles(fs) : ~Corrupted(fs[p].c)

\* locks/ and editzone/ of both zones
LockState(f) ==
    [z \in Zones |-> <<Subtree(f, Append(ZoneRoot(z), LOCKS)),
                       Subtree(f, Append(ZoneRoot(z), EDITZONE))>>]

\* C27: an edit_open that returns a failure leaves locks/ and editzone/ of
\* both zones as they were.
C27_FailedOpenNoEffect ==
    (Called({"edit_open"}) /\ ~resp.ok) => LockState(fs) = LockState(call.pre)

\* for a missing path and for a path locked by another conversation the code
\* does as C27 says
C27_RefusedOpenNoEffect ==
    (Called({"edit_open"}) /\ ~resp.ok /\ resp.error \in {"FILE_NOT_FOUND", "FILE_LOCKED"})
        => fs = call.pre

\* edit_cancel always succeeds and a second edit_cancel changes nothing more
CancelTwice ==
    Called({"edit_cancel"}) =>
        /\ resp.ok
        /\ EditCancelResult(fs, call.zone, call.conv, call.path).fs = fs
        /\ EditCancelResult(fs, call.zone, call.conv, call.path).resp.ok

\* edit_cancel was called by a conversation with no edit-zone copy of the path
CancelledNothing ==
    /\ Called({"edit_cancel"})
    /\ ~Exists(call.pre, GetEditzonePath(ZoneRoot(call.zone), call.conv, call.path))

\* C29: edit_cancel always returns success, a second edit_cancel leaves the
\* state of the first, and the edit_cancel of a conversation that has no
\* edit-zone copy of the path changes nothing.
C29_CancelIdempotent ==
    /\ CancelTwice
    /\ CancelledNothing => fs = call.pre

\* the zone directory that force_unlock works on
UnlockZone(zone) == ZoneRoot(IF Lower(zone) = ZoneStorage THEN STORAGE ELSE DOCUMENTS)

\* the path is unlocked for everyone in the tree f: no lock record and no
\* edit-zone copy of any conversation
UnlockedForAll(f, zone_root, path) ==
    /\ ~Exists(f, GetLockPath(zone_root, path))
    /\ \A conv_dir \in Children(f, Append(zone_root, EDITZONE)) :
          ~Exists(f, PathJoin(conv_dir, path))

\* what the unlocking of path may remove from the tree f: the lock record,
\* the edit-zone copies, and the directories above them
Unlockable(f, zone_root, path) ==
    LET copies == {PathJoin(conv_dir, path) : conv_dir \in Children(f, Append(zone_root, EDITZONE))}
    IN Prefixes(GetLockPath(zone_root, path))
       \cup UNION {Prefixes(e) \cup Descendants(f, e) : e \in copies}

\* force_unlock did its work: the path is unlocked for everyone, data/ is as
\* it was and so is everything that belongs to other paths
Unlocked ==
    LET zone_root == UnlockZone(call.zone)
        path == ValidateRelativePath(call.path).path
    IN /\ resp.ok
       /\ UnlockedForAll(fs, zone_root, path)
       /\ DataOf(fs) = DataOf(call.pre)
       /\ DOMAIN fs \subseteq DOMAIN call.pre
       /\ \A q \in (DOMAIN call.pre) \ Unlockable(call.pre, zone_root, path) :
             q \in DOMAIN fs /\ fs[q] = call.pre[q]

\* C30 as stated: force_unlock with the zone storage or documents unlocks the
\* path for everyone and changes nothing else; with any other zone value it
\* fails with ZONE_FORBIDDEN and changes nothing.
C30_ForceUnlock ==
    Called({"force_unlock"}) =>
        IF call.zone \in {ZoneStorage, ZoneDocuments} THEN Unlocked
        ELSE ZoneRefused /\ fs = call.pre

\* C30, amended: the zone value is compared without regard to letter case.
C30_ForceUnlockAnyCase ==
    Called({"force_unlock"}) =>
        IF Lower(call.zone) \in {ZoneStorage, ZoneDocuments} THEN Unlocked
        ELSE ZoneRefused /\ fs = call.pre

\* force_unlock removed the lock record and the edit-zone copy of a
\* conversation, and the lock record of another path of the zone stayed
C30_Witness ==
    /\ Called({"force_unlock"}) /\ resp.ok
    /\ Exists(call.pre, GetLockPath(UnlockZone(call.zone), call.path))
    /\ \E c \in Convs : Exists(call.pre, GetEditzonePath(UnlockZone(call.zone), c, call.path))
    /\ \E q \in LockFiles(fs) : IsPrefix(Append(UnlockZone(call.zone), LOCKS), q)
    /\ Unlocked

-----------------------------------------------------------------------------
(* Statements about expiry, re-opening and overlapping paths              *)

\* in the tree f the lock record of path p in zone z was written by edit_open
\* of conversation c and is older than lock_max_age_hours at the instant t
ExpiredLockOf(f, z, c, p, t) ==
    LET lock_path == GetLockPath(ZoneRoot(z), p)
    IN /\ IsFile(f, lock_path)
       /\ IsJson(f[lock_path].c)
       /\ f[lock_path].c.conv_id = c
       /\ Expired(f[lock_path].c, t)

\* C31: a store_maintenance run after a lock record of edit_open has passed
\* lock_max_age_hours removes the record and the holder's edit-zone copy,
\* and edit_open of the path by another conversation then succeeds; until
\* then edit_open of another conversation is refused with FILE_LOCKED.
C31_ExpiryLive ==
    /\ Called({"maintenance"}) =>
          \A z \in Zones, c \in Convs, p \in LockPaths :
              ExpiredLockOf(call.pre, z, c, p, call.at) =>
                  /\ ~Exists(fs, GetLockPath(ZoneRoot(z), p))
                  /\ ~Exists(fs, GetEditzonePath(ZoneRoot(z), c, p))
                  /\ \A b \in Convs \ {c} :
                        (/\ Exists(fs, DataPath(ZoneRoot(z), p))
                         /\ ~Exists(fs, EditRoot(z, b)))
                        => EditOpenResult(fs, z, b, p, call.at).resp.ok
    /\ Called({"edit_open"}) =>
          \A c \in Convs \ {call.conv} :
              (/\ ExpiredLockOf(call.pre, call.zone, c, call.path, call.at)
               /\ Exists(call.pre, DataPath(ZoneRoot(call.zone), call.path)))
              => ~resp.ok /\ resp.error = "FILE_LOCKED" /\ fs = call.pre

\* the second half of C31 alone: the expired lock record blocks
C31_ExpiredStillBlocks ==
    /\ Called({"edit_open"})
    /\ \E c \in Convs \ {call.conv} :
          ExpiredLockOf(call.pre, call.zone, c, call.path, call.at)
    /\ ~resp.ok /\ resp.error = "FILE_LOCKED"

\* edit_open was called on a file of data/ by the conversation that the lock
\* record of the path names
Reopened ==
    /\ Called({"edit_open"})
    /\ IsFile(call.pre, DataPath(ZoneRoot(call.zone), call.path))
    /\ IsFile(call.pre, GetLockPath(ZoneRoot(call.zone), call.path))
    /\ IsJson(call.pre[GetLockPath(ZoneRoot(call.zone), call.path)].c)
    /\ call.pre[GetLockPath(ZoneRoot(call.zone), call.path)].c.conv_id = call.conv

\* C32: edit_open of a file by the holder of its lock succeeds, writes the
\* lock record anew with the time of the call, and leaves the current content
\* of data/<path> as the edit-zone copy, whatever the copy held before.
C32_ReopenByHolder ==
    Reopened =>
        /\ resp.ok
        /\ fs[GetLockPath(ZoneRoot(call.zone), call.path)].c
              = LockRec(call.conv, call.at, call.path)
        /\ IsFile(fs, GetEditzonePath(ZoneRoot(call.zone), call.conv, call.path))
        /\ fs[GetEditzonePath(ZoneRoot(call.zone), call.conv, call.path)].c
              = call.pre[DataPath(ZoneRoot(call.zone), call.path)].c
        /\ DataOf(fs) = DataOf(call.pre)

\* the holder re-opened a file later than it had opened it, and its edit-zone
\* copy had been changed in between
C32_Witness ==
    /\ Reopened /\ resp.ok
    /\ call.pre[GetLockPath(ZoneRoot(call.zone), call.path)].c.locked_at # call.at
    /\ IsFile(call.pre, GetEditzonePath(ZoneRoot(call.zone), call.conv, call.path))
    /\ call.pre[GetEditzonePath(ZoneRoot(call.zone), call.conv, call.path)].c
          # call.pre[DataPath(ZoneRoot(call.zone), call.path)].c
    /\ fs[GetEditzonePath(ZoneRoot(call.zone), call.conv, call.path)].c
          = fs[DataPath(ZoneRoot(call.zone), call.path)].c

\* two different paths of which one lies below the other
Overlap(p, q) ==
    /\ Parts(p) # Parts(q)
    /\ IsPrefix(Parts(p), Parts(q)) \/ IsPrefix(Parts(q), Parts(p))

\* in the tree f conversation c holds the lock on the directory d of zone z
HoldsDir(f, z, c, d) ==
    /\ IsDir(f, DataPath(ZoneRoot(z), d))
    /\ IsFile(f, GetLockPath(ZoneRoot(z), d))
    /\ IsJson(f[GetLockPath(ZoneRoot(z), d)].c)
    /\ f[GetLockPath(ZoneRoot(z), d)].c.conv_id = c

\* C33: while a conversation holds the lock on a directory, edit_open of
\* another conversation on a path below or above it is refused with
\* FILE_LOCKED, and two conversations have no edit-zone copies of
\* overlapping paths.
C33_OverlapLocked ==
    Called({"edit_open"}) =>
        \A c \in Convs \ {call.conv}, d \in LockPaths :
            (/\ HoldsDir(call.pre, call.zone, c, d)
             /\ Overlap(d, call.path)
             /\ Exists(call.pre, DataPath(ZoneRoot(call.zone), call.path)))
            => /\ ~resp.ok /\ resp.error = "FILE_LOCKED"
               /\ ~Exists(fs, GetEditzonePath(ZoneRoot(call.zone), call.conv, call.path))

-----------------------------------------------------------------------------
(* Statements about direct operations on a path that is open               *)

\* a direct call was made on a path whose lock record names another
\* conversation
DirectOnHeld ==
    /\ Called({"write", "delete", "rename"})
    /\ LockedByOther(call.pre, call.zone, call.conv, call.path)
    /\ call.pre[GetLockPath(ZoneRoot(call.zone), call.path)].c.conv_id # <<>>

\* the direct call did what it does on a path that nobody has open
DirectDone ==
    LET data_path == DataPath(ZoneRoot(call.zone), call.path)
        new_path == DataPath(ZoneRoot(call.zone), sess.last.path)
    IN /\ resp.error # "FILE_LOCKED"
       /\ LockState(fs) = LockState(call.pre)
       /\ (/\ resp.op = "write"
           /\ MkdirOK(call.pre, Parent(data_path)) /\ ~IsDir(call.pre, data_path))
          => /\ resp.ok
             /\ fs[data_path].c =
                   IF sess.last.append /\ Exists(call.pre, data_path)
                   THEN Text(call.pre[data_path].c.s \o sess.last.content)
                   ELSE Text(sess.last.content)
       /\ (resp.op = "delete" /\ Exists(call.pre, data_path))
          => resp.ok /\ ~Exists(fs, data_path)
       /\ (resp.op = "rename" /\ Exists(call.pre, data_path) /\ ~Exists(call.pre, new_path))
          => /\ resp.ok
             /\ ~Exists(fs, data_path)
             /\ Subtree(fs, new_path) = Subtree(call.pre, data_path)

\* C34: a direct write, delete or rename of a path that another conversation
\* has open is carried out as on any other path, and an edit_save that
\* succeeds leaves data/<path> equal to the edit-zone copy, whatever the
\* direct calls had left there.
C34_LastSaveWins ==
    /\ DirectOnHeld => DirectDone
    /\ (Called({"edit_save"}) /\ resp.ok)
       => Subtree(fs, DataPath(ZoneRoot(call.zone), call.path))
             = Subtree(call.pre, GetEditzonePath(ZoneRoot(call.zone), call.conv, call.path))

\* the holder saved a file over what a direct write had put there
C34_Witness ==
    /\ Called({"edit_save"}) /\ resp.ok /\ OwnLock
    /\ IsFile(call.pre, DataPath(ZoneRoot(call.zone), call.path))
    /\ call.pre[DataPath(ZoneRoot(call.zone), call.path)].c = Text(DirectContent)
    /\ fs[DataPath(ZoneRoot(call.zone), call.path)].c # Text(DirectContent)
    /\ fs[DataPath(ZoneRoot(call.zone), call.path)].c
          = call.pre[GetEditzonePath(ZoneRoot(call.zone), call.conv, call.path)].c

-----------------------------------------------------------------------------
(* Statements about the resolver of the direct operations, the git         *)
(* sub-policy and the arguments of exec                                    *)

\* C35: _resolve_chroot_path accepts a path exactly when the stack walk of
\* _validate_relative_path accepts it, and refuses with PATH_ESCAPE.
C35_ResolverIsStackWalk ==
    call.fn = "_resolve_chroot_path" =>
        /\ call.ok = ValidateRelativePath(call.raw).ok
        /\ ~call.ok => call.error = "PATH_ESCAPE"

GitSubcommands == GIT_WHITELIST_READ \cup GIT_WHITELIST_WRITE
\* _validate_command was called for git as the write zones call it: with
\* their whitelist and with the argument list of the caller
GitValidated ==
    /\ call.fn = "_validate_command"
    /\ call.cmd = "git"
    /\ call.whitelist = WHITELIST_READWRITE
    /\ call.args # NoArgs

\* C36: git in a write zone passes validation only with a first argument
\* that is a whitelisted sub-command; a blacklisted or unlisted first
\* argument is refused with COMMAND_FORBIDDEN, an empty list is refused.
C36_GitSubPolicy ==
    GitValidated =>
        /\ call.ok => (call.args # <<>> /\ \E g \in GitSubcommands : call.args[1] = Str(g))
        /\ call.args = <<>> => ~call.ok
        /\ (call.args # <<>> /\ \E g \in GIT_BLACKLIST : call.args[1] = Str(g)) =>
               (~call.ok /\ call.error = "COMMAND_FORBIDDEN")
        /\ (call.args # <<>> /\ ~\E g \in GitSubcommands : call.args[1] = Str(g)) =>
               (~call.ok /\ call.error = "COMMAND_FORBIDDEN")

\* an option before the sub-command has been refused
C36_Witness ==
    /\ GitValidated
    /\ call.args = <<Str("--no-pager"), Str("status")>>
    /\ ~call.ok /\ call.error = "COMMAND_FORBIDDEN"

\* ".." is one of the segments of the argument
HasParentSegment(arg) == \E k \in 1..Len(Split(arg)) : Split(arg)[k] = DotDot
\* the argument, resolved from the directory of the call, is that directory
\* or lies below it
LandsInside(arg) ==
    IsPrefix(Resolve(ExecChroot, symlinks), Resolve(PathJoin(ExecChroot, arg), symlinks))
EscapingArg ==
    ExecCalled /\ \E i \in 1..Len(call.args) :
                      HasParentSegment(call.args[i]) /\ ~LandsInside(call.args[i])
\* the command and the arguments pass _validate_command and _validate_args
\* as the entry point calls them
EarlierChecksPass ==
    /\ ValidateCommand(call.cmd,
                       IF call.fn = "store_uploads_exec"
                       THEN WHITELIST_READONLY ELSE WHITELIST_READWRITE,
                       IF call.fn = "store_uploads_exec" THEN NoArgs ELSE call.args).ok
    /\ ValidateArgs(call.args, call.fn = "store_uploads_exec").ok

\* C37 as stated: through every exec entry point a call with an argument
\* that begins with "/" is rejected, a call with an argument whose ".."
\* leads out of the root fails with PATH_ESCAPE, and neither runs its command.
C37_EscapingArgPathEscape ==
    /\ AbsoluteArg => (~resp.ok /\ ~call.ran)
    /\ EscapingArg => (~resp.ok /\ resp.error = "PATH_ESCAPE" /\ ~call.ran)

\* C37, amended: such a call always fails without running its command, in
\* whatever position the argument stands; the error is PATH_ESCAPE when the
\* directory of the call is there and the command and the arguments pass the
\* checks made before, and the error of the first of those checks otherwise.
\* A command that ran had no argument with ".." leading out of the root.
C37_EscapingArgRefused ==
    /\ (AbsoluteArg \/ EscapingArg) =>
          /\ ~resp.ok
          /\ ~call.ran
          /\ (ChrootReady /\ EarlierChecksPass) => resp.error = "PATH_ESCAPE"
          /\ ~ChrootReady =>
                resp.error = IF call.fn = "store_uploads_exec" THEN Exc ELSE "ZONE_FORBIDDEN"
          /\ (ChrootReady /\ ~EarlierChecksPass) =>
                resp.error \in {"COMMAND_FORBIDDEN", "ARGUMENT_FORBIDDEN"}
    /\ (ExecCalled /\ call.ran) =>
          \A i \in 1..Len(call.args) :
              /\ ~(call.args[i] # <<>> /\ Head(call.args[i]) = "/")
              /\ HasParentSegment(call.args[i]) => LandsInside(call.args[i])

\* ls f .. was refused with PATH_ESCAPE for the second argument
C37_Witness ==
    /\ ExecCalled /\ call.cmd = "ls"
    /\ call.args = <<Str("f"), DotDot>>
    /\ ~resp.ok /\ resp.error = "PATH_ESCAPE" /\ ~call.ran

\* the argument asks for editing in place: a group of short options with i
\* in it (-i, -i with a suffix, -ni), or the long form
IsInPlaceFlag(arg) ==
    \/ /\ Len(arg) >= 2 /\ arg[1] = "-" /\ arg[2] # "-"
       /\ \E k \in 2..Len(arg) : arg[k] = "i"
    \/ Len(arg) >= 3 /\ SubSeq(arg, 1, 3) = <<"-", "-", "in-place">>
InPlaceWhy == "Option -i (in-place) is forbidden in read-only mode"

\* C38: _validate_args as the Uploads exec calls it refuses every argument
\* list with an in-place flag in any spelling with ARGUMENT_FORBIDDEN; as
\* the read-write zones call it, no list is refused for that reason.
C38_InPlaceRefusedReadOnly ==
    call.fn = "_validate_args" =>
        /\ (call.readonly /\ \E i \in 1..Len(call.args) : IsInPlaceFlag(call.args[i]))
              => (~call.ok /\ call.error = "ARGUMENT_FORBIDDEN")
        /\ ~call.readonly => call.why # InPlaceWhy

-----------------------------------------------------------------------------
(* Statements about the Documents delete and the repository                *)

\* C39: a Documents delete that reports success leaves the path absent,
\* tracked by the repository or not.
C39_DeletedIsAbsent ==
    [][\A raw \in DeletePaths :
          (DocumentsDelete(raw, <<>>) /\ resp'.ok) =>
              ~Exists(fs', DataPath(ZoneRoot(DOCUMENTS), raw))]_vars

\* store_documents_write found no repository and the git init of
\* _init_git_repo failed: git exited non-zero, or there is no git
InitFailed ==
    /\ call.fn = "store_documents_write"
    /\ call.git # "works"
    /\ ~Exists(call.pre, Append(Append(ZoneRoot(DOCUMENTS), DATA), GITDIR))

\* C40: however the initialization of the repository fails, the write of
\* the caller is carried out as it is without a repository and succeeds.
C40_InitBestEffort ==
    (InitFailed /\ call.primary.ok) => (resp.ok /\ fs = call.primary.fs)

=============================================================================
